---- MODULE Spec2Model ----
(***************************************************************************)
(* TENON: the idempotency guardian (RFC-10) with its in-memory store and   *)
(* ledger port, the replay engine, and the hash-chained WORM ledger        *)
(* (RFC-09).                                                               *)
(*                                                                         *)
(* Conventions.  A Python str is a sequence of tokens (a token is one      *)
(* character or one literal piece of a format string), so that f-strings   *)
(* and "|".join are concatenations and two different inputs can format to  *)
(* the same text.  Optional[x] is <<>> for None and <<x>> otherwise.  An   *)
(* Enum member is a record with its name and its value.  A datetime is a   *)
(* clock reading (a natural number).                                       *)
(***************************************************************************)
EXTENDS Integers, Sequences, FiniteSets, TLC

\* ------------------------------------------------------------------ bounds
NumThreads == 2     \* concurrent callers of the guardian
MaxCalls == 3       \* calls of the sequential caller
MaxClock == 1       \* clock readings 0..MaxClock
MaxOther == 1       \* foreign ledger entries
MaxEntries == 3     \* appends to the WORM ledger
MaxAppends == 3     \* calls of EvidenceLog.append
MaxIngests == 3     \* calls of ingest_raw_observation
NumStores == 2      \* pairs of (RawPayloadStore, IngestRecordStore) constructed
MaxStoreOps == 3    \* direct calls of the stores' append
MaxDecides == 3     \* calls of IdentityDecider.decide
MaxLinks == 2       \* links in a lineage list
MaxRegistryOps == 3 \* operations on the registries and the normalizer
MaxPersists == 2    \* calls of persist_links
MaxEvents == 3      \* canonical events of an evaluated flow
MaxRules == 3       \* causal rules passed to the causality engine
MaxWindows == 4     \* windows whose aggregate is turned into alerts
MaxChanges == 2     \* change declarations made, and change events built
MaxRuns == 3        \* runs of test groups on a conformance suite

\* ------------------------------------------------------------- enum types
Scope ==
  { [name |-> "INGEST", value |-> "INGEST"],
    [name |-> "CANONICALIZE", value |-> "CANONICALIZE"],
    [name |-> "EVIDENCE_WRITE", value |-> "EVIDENCE_WRITE"] }

Decision ==
  { [name |-> "ACCEPT_FIRST", value |-> "ACCEPT_FIRST"],
    [name |-> "REJECT_DUPLICATE", value |-> "REJECT_DUPLICATE"],
    [name |-> "FLAG_AMBIGUOUS", value |-> "FLAG_AMBIGUOUS"] }

\* Enum lookup by name: Scope[name], Decision[name].
ScopeByName(n) == CHOOSE m \in Scope : m.name = n
DecisionByName(n) == CHOOSE m \in Decision : m.name = n

ACCEPT_FIRST == DecisionByName("ACCEPT_FIRST")
REJECT_DUPLICATE == DecisionByName("REJECT_DUPLICATE")
FLAG_AMBIGUOUS == DecisionByName("FLAG_AMBIGUOUS")
INGEST == ScopeByName("INGEST")

RULE_VERSION == <<"1.0.0">>

\* ------------------------------------------------------------ key objects
IdempotencyKey(key, scope, principal, subject, payload_hash) ==
  [key |-> key, scope |-> scope, principal |-> principal, subject |-> subject,
   payload_hash |-> payload_hash, version |-> <<"1.0.0">>]

\* The keys the callers pass: KeyA and KeyB carry the same key string but
\* different components whose "|"-joined text is the same; KeyC carries the
\* same key string and components whose text differs; KeyD is another key.
KeyA == IdempotencyKey("k1", INGEST, <<"a", "|", "b">>, <<"c">>, <<"h">>)
KeyB == IdempotencyKey("k1", INGEST, <<"a">>, <<"b", "|", "c">>, <<"h">>)
KeyC == IdempotencyKey("k1", INGEST, <<"a">>, <<"c">>, <<"h">>)
KeyD == IdempotencyKey("k2", INGEST, <<"a">>, <<"c">>, <<"h">>)
KeyObjs == {KeyA, KeyB, KeyC, KeyD}
KeyStrs == {k.key : k \in KeyObjs}

\* The components a fingerprint is made of, as a tuple.
FingerprintFields(k) == <<k.scope, k.principal, k.subject, k.payload_hash, k.version>>

VARIABLES
  records_by_key,   \* InMemoryIdempotencyStore._records_by_key: key -> list id, 0 = absent
  lists,            \* the list objects the dict's values refer to
  append_log,       \* InMemoryIdempotencyStore._append_log
  entries,          \* InMemoryWORMLedger._entries
  entry_map,        \* InMemoryWORMLedger._entry_map, as the set of (reference, entry)
  clock,            \* datetime.utcnow()
  th,               \* each caller's position and locals
  execution_count,  \* how often the guarded operation ran
  hist,             \* completed calls, in the order they returned
  started,          \* calls started, per caller
  others,           \* foreign entries appended to the ledger
  verify,           \* ReplayEngine.verify_determinism: its position and locals
  deterministic,    \* what verify_determinism last returned, if it ran
  worm_entries,        \* WORMLedger._entries
  worm_next_sequence,  \* WORMLedger._next_sequence
  tampered,            \* the in-place change made to a stored entry, if any
  ev_events,            \* EvidenceLog._events: list of (sequence number, event)
  ev_next_sequence,     \* EvidenceLog._next_sequence
  ev_last_produced_at,  \* EvidenceLog._last_produced_at
  ev_event_ids,         \* EvidenceLog._event_ids
  ev_calls,             \* the calls of EvidenceLog.append made, with their outcomes
  seen_events,      \* entrypoint._SEEN_EVENTS: idempotency key -> event_id (module global)
  raw_payloads,     \* RawPayloadStore._payloads of each store: hash -> (bytes, format)
  ing_records,      \* IngestRecordStore._records of each store
  hash_index,       \* IngestRecordStore._hash_index of each store: hash -> ingest ids
  ing_calls,        \* the calls of ingest_raw_observation made, with what they returned
  links,            \* InMemoryAppendOnlyLinkStore._links
  link_ids,         \* InMemoryAppendOnlyLinkStore._link_ids
  attributions,     \* AppendOnlyCausalityStore._attributions: causality_id -> attribution
  by_discrepancy,   \* AppendOnlyCausalityStore._by_discrepancy: discrepancy_id -> ids
  store_calls,      \* the direct calls of a store's append made, with their outcomes
  existing_events,  \* the caller's map idempotency key -> event, as (key, event) pairs in insertion order
  decide_calls,     \* the calls of IdentityDecider.decide made, with their arguments and results
  lin_call,         \* the last call of a LineageValidator method made, with its result
  rules,            \* RuleRegistry._rules: (source_system, raw_format, schema_hint) -> rule
  versions,         \* VersionRegistry._versions: component -> entries sorted by effective_at
  diffs,            \* DiffStore._diffs: diff_reference -> diff document
  reg_calls,        \* the calls made on the registries and of normalize_ingest_record, with their outcomes
  persist_calls,    \* the calls of CorrelationEngine.persist_links made, with their outcomes
  ms_call,          \* the call of MoneyStateMachine.evaluate made, with its result
  cs_call,          \* the call of CausalityEngine.attribute made, with its outcome
  alert_calls,      \* the calls of AlertBuilder.build made, one per window, with what they returned
  declarations,     \* the ChangeDeclaration objects constructed
  change_events,    \* the ChangeEvent payloads built from them, in order
  schema,           \* AdapterRegistry._schema: the manifest schema loaded, or None
  contracts,        \* AdapterRegistry._contracts: adapter_id -> contract
  ingest_call,      \* the call of AdapterRegistry.validate_ingest made, with its outcome
  suite,            \* the ConformanceSuite constructed: adapter_id, adapter_contract, its three result lists
  report            \* what the last call of ConformanceSuite.generate_report returned

gvars == <<records_by_key, lists, append_log, entries, entry_map, clock, th,
           execution_count, hist, started, others, verify, deterministic>>

wvars == <<worm_entries, worm_next_sequence, tampered>>

evars == <<ev_events, ev_next_sequence, ev_last_produced_at, ev_event_ids, ev_calls>>

ivars == <<seen_events, raw_payloads, ing_records, hash_index, ing_calls>>

svars == <<links, link_ids, attributions, by_discrepancy, store_calls>>

dvars == <<existing_events, decide_calls>>

lvars == <<lin_call>>

nvars == <<rules, versions, diffs, reg_calls>>

pvars == <<persist_calls>>

mvars == <<ms_call>>

cvars == <<cs_call>>

avars == <<alert_calls>>

hvars == <<declarations, change_events>>

kvars == <<schema, contracts, ingest_call, suite, report>>

\* What the operations of each subsystem leave alone.
nonGuardian == <<wvars, evars, ivars, svars, dvars, lvars, nvars, pvars, mvars, cvars, avars, hvars, kvars>>
nonWorm == <<gvars, evars, ivars, svars, dvars, lvars, nvars, pvars, mvars, cvars, avars, hvars, kvars>>
nonEvidence == <<gvars, wvars, ivars, svars, dvars, lvars, nvars, pvars, mvars, cvars, avars, hvars, kvars>>
nonIngest == <<gvars, wvars, evars, svars, dvars, lvars, nvars, pvars, mvars, cvars, avars, hvars, kvars>>
nonStores == <<wvars, evars, dvars, lvars, nvars, pvars, mvars, cvars, avars, hvars, kvars>>
nonDecider == <<gvars, wvars, evars, ivars, svars, lvars, nvars, pvars, mvars, cvars, avars, hvars, kvars>>
nonLineage == <<gvars, wvars, evars, ivars, svars, dvars, nvars, pvars, mvars, cvars, avars, hvars, kvars>>
nonRegistries == <<gvars, wvars, evars, ivars, svars, dvars, lvars, pvars, mvars, cvars, avars, hvars, kvars>>
nonPersist == <<attributions, by_discrepancy, store_calls,
               gvars, wvars, evars, ivars, dvars, lvars, nvars, mvars, cvars, avars, hvars, kvars>>
nonMoneyState == <<gvars, wvars, evars, ivars, svars, dvars, lvars, nvars, pvars, cvars, avars, hvars, kvars>>
nonCausality == <<gvars, wvars, evars, ivars, svars, dvars, lvars, nvars, pvars, mvars, avars, hvars, kvars>>
nonAlerts == <<gvars, wvars, evars, ivars, svars, dvars, lvars, nvars, pvars, mvars, cvars, hvars, kvars>>
nonChanges == <<gvars, wvars, evars, ivars, svars, dvars, lvars, nvars, pvars, mvars, cvars, avars, kvars>>
nonAdapters == <<gvars, wvars, evars, ivars, svars, dvars, lvars, nvars, pvars, mvars, cvars, avars, hvars>>

vars == <<gvars, wvars, evars, ivars, svars, dvars, lvars, nvars, pvars, mvars, cvars, avars, hvars, kvars>>

Threads == 1..NumThreads
None == <<>>
Some(x) == <<x>>

Idle == [pc |-> "idle", key |-> None, guard |-> FALSE, now |-> 0, recs |-> 0,
         decision |-> None, first_seen_at |-> 0, notes |-> None,
         record |-> None, target |-> 0, call |-> <<>>]

\* ---------------------------------------------------------------- guardian
\* guardian.py _build_fingerprint
_build_fingerprint(key) ==
  <<key.scope.value>> \o <<"|">> \o key.principal \o <<"|">> \o key.subject
    \o <<"|">> \o key.payload_hash \o <<"|">> \o key.version

\* str.startswith("fingerprint:")
StartsWithFingerprint(s) == Len(s) > 0 /\ s[1] = "fingerprint:"

\* guardian.py _parse_fingerprint; notes is Optional[str]
_parse_fingerprint(notes) ==
  IF notes # None /\ Len(notes[1]) > 0 /\ StartsWithFingerprint(notes[1])
  THEN Tail(notes[1])
  ELSE <<>>

\* datetime.isoformat / datetime.fromisoformat
isoformat(t) == <<"iso", t>>
fromisoformat(s) == s[2]

\* Mutant of FirstRecord: find_by_key returns the newest record of the key
\* (records[-1]) instead of the first.
FirstRecord_Last(ref) ==
  IF ref = 0 \/ Len(lists[ref]) = 0 THEN None ELSE Some(lists[ref][Len(lists[ref])])

\* InMemoryIdempotencyStore.find_by_key, second half: records is a list id
\* (0: the fresh empty default of dict.get).
FirstRecord(ref) ==
  IF ref = 0 \/ Len(lists[ref]) = 0 THEN None ELSE Some(lists[ref][1])

\* Guardian.check lines 70-90: the decision from the looked-up record.
Decide(existing, key, now) ==
  IF existing = None
  THEN [decision |-> ACCEPT_FIRST, first_seen_at |-> now, notes |-> None]
  ELSE LET existing_fingerprint == _parse_fingerprint(existing[1].notes)
           current_fingerprint == _build_fingerprint(key)
       IN IF existing_fingerprint # current_fingerprint
          THEN [decision |-> FLAG_AMBIGUOUS,
                first_seen_at |-> existing[1].first_seen_at,
                notes |-> Some(<<"Ambiguous: fingerprint mismatch. Expected: ">>
                               \o existing_fingerprint \o <<", Got: ">>
                               \o current_fingerprint)]
          ELSE [decision |-> REJECT_DUPLICATE,
                first_seen_at |-> existing[1].first_seen_at,
                notes |-> None]

\* Guardian.check line 65: a call begins and reads the clock.  The call's
\* id names the uuid4() values drawn on its behalf.
Start(t, k, g) ==
  /\ th[t].pc = "idle"
  /\ started' = [started EXCEPT ![t] = @ + 1]
  /\ th' = [th EXCEPT ![t] = [Idle EXCEPT !.pc = "find", !.key = Some(k),
                                          !.guard = g, !.now = clock,
                                          !.call = <<t, started[t] + 1>>]]
  /\ UNCHANGED <<records_by_key, lists, append_log, entries, entry_map, clock,
                 execution_count, hist, others, verify, deterministic, nonGuardian>>

\* find_by_key line 27: records = self._records_by_key.get(key, [])
FindGet(t) ==
  /\ th[t].pc = "find"
  /\ th' = [th EXCEPT ![t].pc = "decide",
                      ![t].recs = records_by_key[th[t].key[1].key]]
  /\ UNCHANGED <<records_by_key, lists, append_log, entries, entry_map, clock,
                 execution_count, hist, started, others, verify, deterministic, nonGuardian>>

\* find_by_key lines 28-31, then Guardian.check lines 70-90.
FindDecide(t) ==
  /\ th[t].pc = "decide"
  /\ LET d == Decide(FirstRecord(th[t].recs), th[t].key[1], th[t].now)
     IN th' = [th EXCEPT ![t].pc = "ledger",
                         ![t].decision = Some(d.decision),
                         ![t].first_seen_at = d.first_seen_at,
                         ![t].notes = d.notes]
  /\ UNCHANGED <<records_by_key, lists, append_log, entries, entry_map, clock,
                 execution_count, hist, started, others, verify, deterministic, nonGuardian>>

\* Guardian.check lines 93-102: the evidence entry.
EvidenceEntry(key, decision, now) ==
  [type |-> "idempotency_check", key |-> key.key, scope |-> key.scope.value,
   principal |-> key.principal, subject |-> key.subject,
   payload_hash |-> key.payload_hash, decision |-> decision.value,
   timestamp |-> isoformat(now)]

\* uuid.uuid4(): a value no other draw returns, named by who drew it.
uuid4(who, n) == <<"uuid", who, n>>

\* InMemoryWORMLedger.append_entry: the entry stored under a fresh reference.
\* {"reference": reference, **entry_data}: entry_data's keys win.
WithReference(ref, entry_data) == entry_data @@ [reference |-> ref]

\* Guardian.check lines 106-121: the record of the call.
BuildRecord(id, key, decision, first_seen_at, now, evidence_ref, notes) ==
  [idempotency_record_id |-> id,
   idempotency_key |-> key.key,
   scope |-> key.scope,
   decision |-> decision,
   first_seen_at |-> first_seen_at,
   decided_at |-> now,
   evidence_refs |-> <<evidence_ref>>,
   rule_version |-> RULE_VERSION,
   notes |-> IF decision = ACCEPT_FIRST
             THEN Some(<<"fingerprint:">> \o _build_fingerprint(key))
             ELSE notes]

\* Guardian.check lines 93-121: append the evidence to the ledger (one
\* append_entry call) and build the record.
LedgerAppend(t) ==
  /\ th[t].pc = "ledger"
  /\ LET ref == <<"worm-">> \o uuid4(th[t].call, 1)
         e == WithReference(ref, EvidenceEntry(th[t].key[1], th[t].decision[1], th[t].now))
         rec == BuildRecord(uuid4(th[t].call, 2), th[t].key[1], th[t].decision[1],
                            th[t].first_seen_at, th[t].now, ref, th[t].notes)
     IN /\ entries' = Append(entries, e)
        /\ entry_map' = entry_map \cup {<<ref, e>>}
        /\ th' = [th EXCEPT ![t].pc = "append_test", ![t].record = Some(rec)]
  /\ UNCHANGED <<records_by_key, lists, append_log, clock, execution_count,
                 hist, started, others, verify, deterministic, nonGuardian>>

\* store.append line 38: if record.idempotency_key not in self._records_by_key
AppendTest(t) ==
  /\ th[t].pc = "append_test"
  /\ th' = [th EXCEPT ![t].pc =
              IF records_by_key[th[t].record[1].idempotency_key] = 0
              THEN "append_new" ELSE "append_load"]
  /\ UNCHANGED <<records_by_key, lists, append_log, entries, entry_map, clock,
                 execution_count, hist, started, others, verify, deterministic, nonGuardian>>

\* store.append line 39: self._records_by_key[key] = []
AppendNew(t) ==
  /\ th[t].pc = "append_new"
  /\ lists' = Append(lists, <<>>)
  /\ records_by_key' =
       [records_by_key EXCEPT ![th[t].record[1].idempotency_key] = Len(lists) + 1]
  /\ th' = [th EXCEPT ![t].pc = "append_load"]
  /\ UNCHANGED <<append_log, entries, entry_map, clock, execution_count,
                 hist, started, others, verify, deterministic, nonGuardian>>

\* store.append line 41, the subscript: self._records_by_key[key]
AppendLoad(t) ==
  /\ th[t].pc = "append_load"
  /\ th' = [th EXCEPT ![t].pc = "append_list",
                      ![t].target = records_by_key[th[t].record[1].idempotency_key]]
  /\ UNCHANGED <<records_by_key, lists, append_log, entries, entry_map, clock,
                 execution_count, hist, started, others, verify, deterministic, nonGuardian>>

\* store.append line 41, the call: .append(record)
AppendList(t) ==
  /\ th[t].pc = "append_list"
  /\ lists' = [lists EXCEPT ![th[t].target] = Append(@, th[t].record[1])]
  /\ th' = [th EXCEPT ![t].pc = "append_log"]
  /\ UNCHANGED <<records_by_key, append_log, entries, entry_map, clock, execution_count, hist, started, others, verify, deterministic, nonGuardian>>

\* ExecutionGate.should_execute
should_execute(decision) == decision = ACCEPT_FIRST

\* Mutant of AppendLogReturn: the store keeps only the accepted calls in its
\* append log.
AppendLogReturn_AcceptedOnly(t) ==
  /\ th[t].pc = "append_log"
  /\ append_log' = IF th[t].decision[1] = ACCEPT_FIRST
                    THEN Append(append_log, th[t].record[1])
                    ELSE append_log
  /\ LET run == th[t].guard /\ th[t].decision[1] = ACCEPT_FIRST
     IN /\ execution_count' = IF run THEN execution_count + 1 ELSE execution_count
        /\ hist' = Append(hist, [key |-> th[t].key[1],
                                 guard |-> th[t].guard,
                                 decision |-> th[t].decision[1],
                                 result |-> IF run THEN Some("executed") ELSE None])
  /\ th' = [th EXCEPT ![t] = Idle]
  /\ UNCHANGED <<records_by_key, lists, entries, entry_map, clock, started,
                 others, verify, deterministic, nonGuardian>>

\* store.append line 42 (self._append_log.append(record)), then Guardian.check
\* line 126 and, for a guard call, Guardian.guard lines 154-159; hist notes the
\* finished call.
AppendLogReturn(t) ==
  /\ th[t].pc = "append_log"
  /\ append_log' = Append(append_log, th[t].record[1])
  /\ LET run == th[t].guard /\ should_execute(th[t].decision[1])
     IN /\ execution_count' = IF run THEN execution_count + 1 ELSE execution_count
        /\ hist' = Append(hist, [key |-> th[t].key[1],
                                 guard |-> th[t].guard,
                                 decision |-> th[t].decision[1],
                                 result |-> IF run THEN Some("executed") ELSE None])
  /\ th' = [th EXCEPT ![t] = Idle]
  /\ UNCHANGED <<records_by_key, lists, entries, entry_map, clock, started, others, verify, deterministic, nonGuardian>>

\* Time passes.
Tick ==
  /\ clock < MaxClock
  /\ clock' = clock + 1
  /\ UNCHANGED <<records_by_key, lists, append_log, entries, entry_map, th, execution_count, hist, started, others, verify, deterministic, nonGuardian>>

\* Another writer of the ledger port appends an entry of its own type.
AppendOther ==
  /\ others < MaxOther
  /\ LET ref == <<"worm-">> \o uuid4(<<0, others + 1>>, 1)
         e == WithReference(ref, [type |-> "other"])
     IN /\ entries' = Append(entries, e)
        /\ entry_map' = entry_map \cup {<<ref, e>>}
  /\ others' = others + 1
  /\ UNCHANGED <<records_by_key, lists, append_log, clock, th, execution_count,
                 hist, started, verify, deterministic, nonGuardian>>

\* ------------------------------------------------------------------ replay
\* dict.get(key, default)
Get(d, key, default) == IF key \in DOMAIN d THEN d[key] ELSE default

\* Mutant of _reconstruct_record: decided_at is the time of the replay
\* (datetime.utcnow()) instead of the entry's timestamp.
_reconstruct_record_now(entry) ==
  [idempotency_record_id |-> Get(entry, "record_id", <<"replayed">>),
   idempotency_key |-> entry.key,
   scope |-> ScopeByName(entry.scope),
   decision |-> DecisionByName(entry.decision),
   first_seen_at |-> fromisoformat(entry.timestamp),
   decided_at |-> clock,
   evidence_refs |-> <<>>,
   rule_version |-> <<"1.0.0">>,
   notes |-> Some(<<"Replayed from WORM ledger">>)]

\* ReplayEngine._reconstruct_record
_reconstruct_record(entry) ==
  LET timestamp == fromisoformat(entry.timestamp)
      scope == ScopeByName(entry.scope)
      decision == DecisionByName(entry.decision)
  IN [idempotency_record_id |-> Get(entry, "record_id", <<"replayed">>),
      idempotency_key |-> entry.key,
      scope |-> scope,
      decision |-> decision,
      first_seen_at |-> timestamp,
      decided_at |-> timestamp,
      evidence_refs |-> <<>>,
      rule_version |-> <<"1.0.0">>,
      notes |-> Some(<<"Replayed from WORM ledger">>)]

\* Mutant of IsIdempotencyCheck: the replay looks for another type tag than
\* the one the guardian writes.
IsIdempotencyCheck_WrongTag(entry) == Get(entry, "type", "") = "idempotency_decision"

\* entry.get("type") == "idempotency_check"
IsIdempotencyCheck(entry) == Get(entry, "type", "") = "idempotency_check"

\* ReplayEngine.replay_all over InMemoryWORMLedger.get_all_entries()
replay_all ==
  LET checks == SelectSeq(entries, IsIdempotencyCheck)
  IN [i \in 1..Len(checks) |-> _reconstruct_record(checks[i])]

VerifyIdle == [pc |-> "idle", first_replay |-> <<>>, second_replay |-> <<>>]

\* verify_determinism line 80: first_replay = self.replay_all()
VerifyFirst ==
  /\ verify.pc = "idle"
  /\ verify' = [VerifyIdle EXCEPT !.pc = "second", !.first_replay = replay_all]
  /\ UNCHANGED <<records_by_key, lists, append_log, entries, entry_map, clock,
                 th, execution_count, hist, started, others, deterministic,
                 nonGuardian>>

\* verify_determinism line 81: second_replay = self.replay_all()
VerifySecond ==
  /\ verify.pc = "second"
  /\ verify' = [verify EXCEPT !.pc = "compare", !.second_replay = replay_all]
  /\ UNCHANGED <<records_by_key, lists, append_log, entries, entry_map, clock,
                 th, execution_count, hist, started, others, deterministic,
                 nonGuardian>>

\* verify_determinism lines 83-92: the comparison it makes (lengths, then
\* key and decision of each pair).
SameOutcomes(first_replay, second_replay) ==
  /\ Len(first_replay) = Len(second_replay)
  /\ \A i \in 1..Len(first_replay) :
       /\ first_replay[i].idempotency_key = second_replay[i].idempotency_key
       /\ first_replay[i].decision = second_replay[i].decision

VerifyReturn ==
  /\ verify.pc = "compare"
  /\ deterministic' = Some(SameOutcomes(verify.first_replay, verify.second_replay))
  /\ verify' = VerifyIdle
  /\ UNCHANGED <<records_by_key, lists, append_log, entries, entry_map, clock,
                 th, execution_count, hist, started, others, nonGuardian>>

\* -------------------------------------------------------------- WORM ledger
LedgerEntryType ==
  { [name |-> "EVIDENCE_SNAPSHOT", value |-> "EVIDENCE_SNAPSHOT"],
    [name |-> "STATE_CHECKPOINT", value |-> "STATE_CHECKPOINT"],
    [name |-> "AUDIT_RECORD", value |-> "AUDIT_RECORD"],
    [name |-> "DISCREPANCY_LOG", value |-> "DISCREPANCY_LOG"] }

RetentionPolicy(retention_period, immutable_until) ==
  [retention_period |-> retention_period, immutable_until |-> immutable_until]

\* The values the appends draw from (timestamps in either order), and the
\* values a stored field can be changed to (the appended ones and one more
\* of each kind; any of the four entry types).
AppendTypes == {ty \in LedgerEntryType : ty.name \in {"EVIDENCE_SNAPSHOT", "STATE_CHECKPOINT"}}
Contents == { <<"content-1">>, <<"content-2">> }
WrittenAts == { <<"2026-01-23T10:00:00Z">>, <<"2026-01-23T09:59:59Z">> }
Policies == { RetentionPolicy(<<"P7Y">>, <<"2033-01-23T10:00:00Z">>) }
OtherContent == <<"content-x">>
OtherWrittenAt == <<"2026-01-23T10:00:01Z">>
OtherPolicy == RetentionPolicy(<<"P7Y">>, <<"2027-01-23T10:00:00Z">>)

\* ledger_entry.py sha256_hex: a digest names the bytes it was computed from,
\* so distinct inputs have distinct digests (no collision is ever found).
sha256_hex(data) == <<"sha256", data>>

\* "0" * 64
ZeroHash == <<"0*64">>

\* The f-string seq|type|content_hash|written_at|previous_entry_hash.
header_canonical(sequence_number, entry_type, content_hash, written_at, previous_entry_hash) ==
  <<sequence_number, "|", entry_type.value, "|", content_hash, "|">>
    \o written_at \o <<"|", previous_entry_hash>>

\* Mutant of PreviousHashForAppend: an entry is linked to the content hash
\* of its predecessor instead of its header hash.
PreviousHashForAppend_ContentHash ==
  IF worm_next_sequence = 1
  THEN ZeroHash
  ELSE worm_entries[Len(worm_entries)].content_hash

\* WORMLedger.append lines 25-28
PreviousHashForAppend ==
  IF worm_next_sequence = 1
  THEN ZeroHash
  ELSE worm_entries[Len(worm_entries)].entry_header_hash

\* WORMLedger.append
WormAppend(entry_type, content, written_at, retention_policy) ==
  /\ Len(worm_entries) < MaxEntries
  /\ tampered = None
  /\ LET content_hash == sha256_hex(content)
         previous_entry_hash == PreviousHashForAppend
         entry_header_hash ==
           sha256_hex(header_canonical(worm_next_sequence, entry_type, content_hash,
                                       written_at, previous_entry_hash))
         entry == [sequence_number |-> worm_next_sequence,
                   entry_type |-> entry_type,
                   content |-> content,
                   content_hash |-> content_hash,
                   written_at |-> written_at,
                   retention_policy |-> retention_policy,
                   previous_entry_hash |-> previous_entry_hash,
                   entry_header_hash |-> entry_header_hash]
     IN worm_entries' = Append(worm_entries, entry)
  /\ worm_next_sequence' = worm_next_sequence + 1
  /\ UNCHANGED <<tampered, nonWorm>>

\* Mutant of EntryFailure: verify_chain does not recompute the content hash.
EntryFailure_NoContentCheck(i) ==
  LET entry == worm_entries[i]
      expected_previous ==
        IF i = 1 THEN ZeroHash ELSE worm_entries[i - 1].entry_header_hash
      computed_header_hash ==
        sha256_hex(header_canonical(entry.sequence_number, entry.entry_type,
                                    entry.content_hash, entry.written_at,
                                    entry.previous_entry_hash))
  IN IF entry.previous_entry_hash # expected_previous
     THEN Some(<<"Chain break at sequence ", entry.sequence_number>>)
     ELSE IF computed_header_hash # entry.entry_header_hash
     THEN Some(<<"Header hash mismatch at sequence ", entry.sequence_number>>)
     ELSE None

\* WORMLedger.verify_chain lines 63-84 for the entry at (1-based) position i:
\* None, or the reason of the first check that fails.
EntryFailure(i) ==
  LET entry == worm_entries[i]
      computed_content_hash == sha256_hex(entry.content)
      expected_previous ==
        IF i = 1 THEN ZeroHash ELSE worm_entries[i - 1].entry_header_hash
      computed_header_hash ==
        sha256_hex(header_canonical(entry.sequence_number, entry.entry_type,
                                    entry.content_hash, entry.written_at,
                                    entry.previous_entry_hash))
  IN IF computed_content_hash # entry.content_hash
     THEN Some(<<"Content hash mismatch at sequence ", entry.sequence_number>>)
     ELSE IF entry.previous_entry_hash # expected_previous
     THEN Some(<<"Chain break at sequence ", entry.sequence_number>>)
     ELSE IF computed_header_hash # entry.entry_header_hash
     THEN Some(<<"Header hash mismatch at sequence ", entry.sequence_number>>)
     ELSE None

\* WORMLedger.verify_chain: (valid, reason)
verify_chain ==
  LET failing == {i \in 1..Len(worm_entries) : EntryFailure(i) # None}
  IN IF Len(worm_entries) = 0 \/ failing = {}
     THEN <<TRUE, None>>
     ELSE <<FALSE, EntryFailure(CHOOSE i \in failing : \A j \in failing : i <= j)>>

\* The values one field of a stored entry can be changed to.
FieldValues(field) ==
  CASE field = "sequence_number" -> 0..(MaxEntries + 1)
    [] field = "entry_type" -> LedgerEntryType
    [] field = "content" -> Contents \cup {OtherContent}
    [] field = "content_hash" -> {sha256_hex(c) : c \in Contents \cup {OtherContent}}
    [] field = "written_at" -> WrittenAts \cup {OtherWrittenAt}
    [] field = "retention_policy" -> Policies \cup {OtherPolicy}
    [] field = "previous_entry_hash" ->
         {ZeroHash, sha256_hex(OtherContent)}
           \cup {worm_entries[i].entry_header_hash : i \in 1..Len(worm_entries)}
    [] field = "entry_header_hash" ->
         {sha256_hex(OtherContent)}
           \cup {worm_entries[i].entry_header_hash : i \in 1..Len(worm_entries)}

EntryFields ==
  {"sequence_number", "entry_type", "content", "content_hash", "written_at",
   "retention_policy", "previous_entry_hash", "entry_header_hash"}

\* A stored entry is changed in place behind the ledger's back: one field of
\* the entry at position k gets another value.
Tamper(k, field, v) ==
  /\ tampered = None
  /\ k \in 1..Len(worm_entries)
  /\ v # worm_entries[k][field]
  /\ worm_entries' = [worm_entries EXCEPT ![k] = [@ EXCEPT ![field] = v]]
  /\ tampered' = Some([at |-> k, sequence_number |-> worm_entries[k].sequence_number,
                       field |-> field])
  /\ UNCHANGED <<worm_next_sequence, nonWorm>>

\* ------------------------------------------------------------ evidence log
EvidenceEventType ==
  { [name |-> "INGEST_RECEIVED", value |-> "INGEST_RECEIVED"],
    [name |-> "NORMALIZATION_APPLIED", value |-> "NORMALIZATION_APPLIED"],
    [name |-> "CORRELATION_MATCH", value |-> "CORRELATION_MATCH"],
    [name |-> "STATE_TRANSITION", value |-> "STATE_TRANSITION"],
    [name |-> "DISCREPANCY_DETECTED", value |-> "DISCREPANCY_DETECTED"],
    [name |-> "AUDIT_CHECKPOINT", value |-> "AUDIT_CHECKPOINT"] }

\* The code point of a character (ord); the shared date-and-minute prefix
\* of the timestamps is one token, equal in all of them.
Ord(c) ==
  CASE c = "." -> 46
    [] c = "0" -> 48
    [] c = "1" -> 49
    [] c = "5" -> 53
    [] c = "Z" -> 90
    [] OTHER -> 0

\* str.__lt__: a < b in the lexicographic order of code points.
StrLess(a, b) ==
  \E i \in 1..(Len(a) + 1) :
    /\ \A j \in 1..(i - 1) : j <= Len(b) /\ a[j] = b[j]
    /\ i <= Len(b)
    /\ (i = Len(a) + 1 \/ (a[i] # b[i] /\ Ord(a[i]) < Ord(b[i])))

\* evidence_event.py ISO8601_UTC_PATTERN: seconds, an optional fraction of
\* one to six digits, then "Z".  The timestamps the callers pass all match.
ProducedAts ==
  { <<"2026-01-23T10:00:0", "0", "Z">>,
    <<"2026-01-23T10:00:0", "0", ".", "5", "Z">>,
    <<"2026-01-23T10:00:0", "1", "Z">> }

EventIds == {"e1", "e2"}
CausedBys == { <<>>, <<"e1">>, <<"e2">>, <<"e1", "e2">>, <<"e99">> }

EvidenceEvent(event_id, event_type, produced_at, payload, caused_by) ==
  [event_id |-> event_id, event_type |-> event_type, produced_at |-> produced_at,
   payload |-> payload, caused_by |-> caused_by]

EvidenceEvents ==
  { EvidenceEvent(id, CHOOSE ty \in EvidenceEventType : ty.name = "INGEST_RECEIVED",
                  at, <<>>, cb) :
      id \in EventIds, at \in ProducedAts, cb \in CausedBys }

\* EvidenceLog.append line 14, the test.
TimeReversed(event) ==
  ev_last_produced_at # None /\ StrLess(event.produced_at, ev_last_produced_at[1])

\* Mutant of MissingCauses: only the first caused_by id is looked up.
MissingCauses_FirstOnly(event) ==
  {i \in 1..Len(event.caused_by) : i = 1 /\ event.caused_by[i] \notin ev_event_ids}

\* EvidenceLog.append lines 19-20: the caused_by ids not in _event_ids.
MissingCauses(event) ==
  {i \in 1..Len(event.caused_by) : event.caused_by[i] \notin ev_event_ids}

\* EvidenceLog.at_or_before: the entries whose produced_at <= iso_dt, as
\* strings.
at_or_before(iso_dt) ==
  SelectSeq(ev_events, LAMBDA entry : ~StrLess(iso_dt, entry[2].produced_at))

\* Mutant of EvAppend: the sequence number is taken before the checks, so a
\* rejected append consumes one.
EvAppend_RejectConsumes(event) ==
  /\ Len(ev_calls) < MaxAppends
  /\ IF TimeReversed(event)
     THEN /\ ev_calls' = Append(ev_calls,
                 [event |-> event, log_len |-> Len(ev_events), returned |-> None,
                  raised |-> Some(<<"produced_at ">> \o event.produced_at
                                  \o <<" is before last event ">>
                                  \o ev_last_produced_at[1])])
          /\ ev_next_sequence' = ev_next_sequence + 1
          /\ UNCHANGED <<ev_events, ev_last_produced_at, ev_event_ids>>
     ELSE IF MissingCauses(event) # {}
     THEN /\ LET i == CHOOSE i \in MissingCauses(event) :
                        \A j \in MissingCauses(event) : i <= j
             IN ev_calls' = Append(ev_calls,
                  [event |-> event, log_len |-> Len(ev_events), returned |-> None,
                   raised |-> Some(<<"caused_by references non-existent event_id: ",
                                     event.caused_by[i]>>)])
          /\ ev_next_sequence' = ev_next_sequence + 1
          /\ UNCHANGED <<ev_events, ev_last_produced_at, ev_event_ids>>
     ELSE /\ ev_events' = Append(ev_events, <<ev_next_sequence, event>>)
          /\ ev_next_sequence' = ev_next_sequence + 1
          /\ ev_last_produced_at' = Some(event.produced_at)
          /\ ev_event_ids' = ev_event_ids \cup {event.event_id}
          /\ ev_calls' = Append(ev_calls,
                 [event |-> event, log_len |-> Len(ev_events),
                  returned |-> Some(ev_next_sequence), raised |-> None])
  /\ UNCHANGED nonEvidence

\* EvidenceLog.append: the sequence number returned, or the ValueError raised.
EvAppend(event) ==
  /\ Len(ev_calls) < MaxAppends
  /\ IF TimeReversed(event)
     THEN /\ ev_calls' = Append(ev_calls,
                 [event |-> event, log_len |-> Len(ev_events), returned |-> None,
                  raised |-> Some(<<"produced_at ">> \o event.produced_at
                                  \o <<" is before last event ">>
                                  \o ev_last_produced_at[1])])
          /\ UNCHANGED <<ev_events, ev_next_sequence, ev_last_produced_at, ev_event_ids>>
     ELSE IF MissingCauses(event) # {}
     THEN /\ LET i == CHOOSE i \in MissingCauses(event) :
                        \A j \in MissingCauses(event) : i <= j
             IN ev_calls' = Append(ev_calls,
                  [event |-> event, log_len |-> Len(ev_events), returned |-> None,
                   raised |-> Some(<<"caused_by references non-existent event_id: ",
                                     event.caused_by[i]>>)])
          /\ UNCHANGED <<ev_events, ev_next_sequence, ev_last_produced_at, ev_event_ids>>
     ELSE /\ ev_events' = Append(ev_events, <<ev_next_sequence, event>>)
          /\ ev_next_sequence' = ev_next_sequence + 1
          /\ ev_last_produced_at' = Some(event.produced_at)
          /\ ev_event_ids' = ev_event_ids \cup {event.event_id}
          /\ ev_calls' = Append(ev_calls,
                 [event |-> event, log_len |-> Len(ev_events),
                  returned |-> Some(ev_next_sequence), raised |-> None])
  /\ UNCHANGED nonEvidence

\* ------------------------------------------------------------------ ingest
\* Raw bytes are a sequence of tokens, each a tuple of strings: <<"{">>,
\* <<"}">>, <<"[">>, <<"]">>, <<"pair", name, type, text>> for one
\* "name": value member, and <<"junk">> for bytes that are no JSON.  A JSON
\* value is <<type, text>>.
PayloadA == << <<"{">>, <<"pair", "source_event_id", "str", "txn_001">>,
               <<"pair", "amount", "int", "500">>, <<"}">> >>
PayloadList == << <<"[">>, <<"pair", "source_event_id", "str", "txn_001">>, <<"]">> >>
PayloadJunk == << <<"junk">> >>

\* json.loads(raw_bytes.decode("utf-8")): a dict (the last member of a name
\* wins), a list, or JSONDecodeError.
json_loads(b) ==
  LET n == Len(b)
      members == 2..(n - 1)
  IN IF n >= 2 /\ b[1] = <<"{">> /\ b[n] = <<"}">> /\ \A i \in members : b[i][1] = "pair"
     THEN [kind |-> "dict",
           value |-> [f \in {b[i][2] : i \in members} |->
                        LET last == CHOOSE i \in members :
                                      /\ b[i][2] = f
                                      /\ \A j \in members : b[j][2] = f => j <= i
                        IN <<b[last][3], b[last][4]>>]]
     ELSE IF n >= 2 /\ b[1] = <<"[">> /\ b[n] = <<"]">>
     THEN [kind |-> "list", value |-> <<>>]
     ELSE [kind |-> "JSONDecodeError", value |-> <<>>]

\* entrypoint._parse_raw_payload: None (kind "none") unless the format is
\* json and the bytes parse.
_parse_raw_payload(raw_bytes, raw_format) ==
  IF raw_format = "json" /\ json_loads(raw_bytes).kind # "JSONDecodeError"
  THEN json_loads(raw_bytes)
  ELSE [kind |-> "none", value |-> <<>>]

KEY_FIELDS_PRIORITY ==
  <<"source_event_id", "external_reference", "source_system", "source_timestamp",
    "observed_at", "amount", "currency", "direction", "event_type",
    "normalizer_version", "adapter_version", "schema_version",
    "_canonicalization_context">>

\* IdempotencyKeyGenerator.generate lines 61-77: "|".join of the
\* "field:value" components of the fields present, in priority order (the
\* values submitted are ints and strings without surrounding whitespace, so
\* their text is the component's value).
RECURSIVE key_string(_, _)
key_string(event, i) ==
  IF i > Len(KEY_FIELDS_PRIORITY) THEN <<>>
  ELSE LET field == KEY_FIELDS_PRIORITY[i]
           rest == key_string(event, i + 1)
       IN IF field \in DOMAIN event
          THEN <<field, ":", event[field][2]>>
                 \o (IF rest = <<>> THEN <<>> ELSE <<"|">> \o rest)
          ELSE rest

\* IdempotencyKeyGenerator.generate
generate(event) == <<"v", "1.0.0", ":", sha256_hex(key_string(event, 1))>>

\* entrypoint lines 89-91: the parsed event with the call's metadata set.
Enriched(parsed_event, source_system, adapter_version, observed_at) ==
  [f \in DOMAIN parsed_event \cup {"source_system", "adapter_version", "observed_at"} |->
     CASE f = "source_system" -> <<"str", source_system>>
       [] f = "adapter_version" -> <<"str", adapter_version>>
       [] f = "observed_at" -> <<"str", observed_at>>
       [] OTHER -> parsed_event[f]]

\* dict[key] = value
Put(d, key, value) == [k \in DOMAIN d \cup {key} |-> IF k = key THEN value ELSE d[k]]

\* entrypoint lines 77-109: (decision, event_id, warnings, _SEEN_EVENTS after)
\* for the n-th call.
Evaluate(n, raw_bytes, raw_format, source_system, adapter_version, observed_at) ==
  LET parsed_event == _parse_raw_payload(raw_bytes, raw_format)
  IN IF parsed_event.kind = "none"
     THEN [decision |-> "FLAG_AMBIGUOUS", event_id |-> None, seen |-> seen_events,
           warnings |-> << <<"Could not parse raw payload for idempotency evaluation">> >>]
     ELSE IF parsed_event.kind = "list"
     THEN [decision |-> "FLAG_AMBIGUOUS", event_id |-> None, seen |-> seen_events,
           warnings |-> << <<"Idempotency evaluation error: ", "TypeError", ": ",
                             "list indices must be integers or slices, not str">> >>]
     ELSE LET idempotency_key ==
                generate(Enriched(parsed_event.value, source_system,
                                  adapter_version, observed_at))
          IN IF idempotency_key \in DOMAIN seen_events
             THEN [decision |-> "REJECT_DUPLICATE",
                   event_id |-> Some(seen_events[idempotency_key]),
                   seen |-> seen_events, warnings |-> <<>>]
             ELSE [decision |-> "ACCEPT",
                   event_id |-> Some(uuid4(<<"ingest", n>>, 1)),
                   seen |-> Put(seen_events, idempotency_key, uuid4(<<"ingest", n>>, 1)),
                   warnings |-> <<>>]

\* Mutant of IngestRecordStore_append: a record whose payload hash is already
\* indexed is not stored again.
IngestRecordStore_append_OncePerHash(records, index, record) ==
  IF record.raw_payload_hash \in DOMAIN index
  THEN [records |-> records, index |-> index]
  ELSE [records |-> Append(records, record),
        index |-> Put(index, record.raw_payload_hash, <<record.ingest_id>>)]

\* IngestRecordStore.append: _records and _hash_index after the call.
IngestRecordStore_append(records, index, record) ==
  [records |-> Append(records, record),
   index |-> Put(index, record.raw_payload_hash,
                 Append(IF record.raw_payload_hash \in DOMAIN index
                        THEN index[record.raw_payload_hash] ELSE <<>>,
                        record.ingest_id))]

\* The arguments of a call: raw bytes, format and observed_at (the other
\* metadata are the same in every call).
IngestInputs ==
  { [raw_bytes |-> PayloadA, raw_format |-> "json", observed_at |-> "2026-01-22T10:00:00Z"],
    [raw_bytes |-> PayloadA, raw_format |-> "json", observed_at |-> "2026-01-22T11:00:00Z"],
    [raw_bytes |-> PayloadA, raw_format |-> "csv", observed_at |-> "2026-01-22T10:00:00Z"],
    [raw_bytes |-> PayloadList, raw_format |-> "json", observed_at |-> "2026-01-22T10:00:00Z"],
    [raw_bytes |-> PayloadJunk, raw_format |-> "json", observed_at |-> "2026-01-22T10:00:00Z"] }

\* ingest_raw_observation with the stores of pair s: RawPayloadStore.append,
\* the idempotency evaluation, then IngestRecordStore.append.
Ingest(s, in) ==
  /\ Len(ing_calls) < MaxIngests
  /\ LET n == Len(ing_calls) + 1
         raw_payload_hash == sha256_hex(in.raw_bytes)
         e == Evaluate(n, in.raw_bytes, in.raw_format, "BANK", "1.0.0", in.observed_at)
         ingest_record ==
           [ingest_id |-> uuid4(<<"ingest", n>>, 2),
            event_id |-> e.event_id,
            idempotency_decision |-> e.decision,
            source_system |-> "BANK",
            source_connector |-> "api",
            source_environment |-> "prod",
            observed_at |-> in.observed_at,
            ingested_at |-> isoformat(clock),
            source_timestamp |-> None,
            raw_payload_hash |-> raw_payload_hash,
            raw_pointer |-> <<"raw:", raw_payload_hash>>,
            raw_format |-> in.raw_format,
            raw_size_bytes |-> Len(in.raw_bytes),
            ingest_protocol_version |-> "1.0.0",
            adapter_version |-> "1.0.0",
            status |-> IF e.warnings = <<>> THEN "RECORDED" ELSE "RECORDED_WITH_WARNINGS",
            warnings |-> e.warnings]
     IN /\ raw_payloads' =
             [raw_payloads EXCEPT ![s] =
                IF raw_payload_hash \in DOMAIN @ THEN @
                ELSE Put(@, raw_payload_hash, <<in.raw_bytes, in.raw_format>>)]
        /\ seen_events' = e.seen
        /\ LET after == IngestRecordStore_append(ing_records[s], hash_index[s], ingest_record)
           IN /\ ing_records' = [ing_records EXCEPT ![s] = after.records]
              /\ hash_index' = [hash_index EXCEPT ![s] = after.index]
        /\ ing_calls' = Append(ing_calls,
             [store |-> s, input |-> in, returned |-> ingest_record,
              count_before |-> Len(ing_records[s])])
  /\ UNCHANGED nonIngest

\* ------------------------------------------------------- append-only stores
\* The append of each store called directly, with records some of which
\* carry the id of another and different contents.  A call is noted with
\* whether a record of that id was stored before it, what it raised, and
\* the store's count before and after.
StoreCall(store, record, existed, raised, size_before, size_after) ==
  [store |-> store, record |-> record, existed |-> existed, raised |-> raised,
   size_before |-> size_before, size_after |-> size_after]

CorrelationLink(link_id, score) ==
  [link_id |-> link_id, source_event_id |-> "evt-1", target_event_id |-> "evt-2",
   link_type |-> "SETTLES", rule_id |-> "rule-1", rule_version |-> "1.0.0",
   version |-> "v1", score |-> score, evidence |-> <<>>,
   engine_version |-> "1.0.0", created_at |-> "2026-01-23T10:00:00Z"]

Links == { CorrelationLink("l1", "0.9"), CorrelationLink("l1", "0.5"),
           CorrelationLink("l2", "0.9") }

\* InMemoryAppendOnlyLinkStore.append
LinkStoreAppend(link) ==
  /\ Len(store_calls) < MaxStoreOps
  /\ LET existed == \E i \in 1..Len(links) : links[i].link_id = link.link_id
     IN IF link.link_id \in link_ids
        THEN /\ UNCHANGED <<links, link_ids>>
             /\ store_calls' = Append(store_calls,
                  StoreCall("link", link, existed,
                            Some(<<"Duplicate link_id: ", link.link_id>>),
                            Len(links), Len(links')))
        ELSE /\ links' = Append(links, link)
             /\ link_ids' = link_ids \cup {link.link_id}
             /\ store_calls' = Append(store_calls,
                  StoreCall("link", link, existed, None, Len(links), Len(links')))
  /\ UNCHANGED <<attributions, by_discrepancy, gvars, ivars, nonStores>>

CausalityAttribution(causality_id, discrepancy_id, confidence_level) ==
  [class |-> "CausalityAttribution", causality_id |-> causality_id,
   discrepancy_id |-> discrepancy_id, cause_type |-> "UNKNOWN_CAUSE",
   confidence_level |-> confidence_level]

\* The arguments of AppendOnlyCausalityStore.append: attributions, and a
\* dict that is none.
Attributions ==
  { CausalityAttribution("c1", "d1", "0.0"), CausalityAttribution("c1", "d1", "0.7"),
    CausalityAttribution("c2", "d1", "0.0"),
    [class |-> "dict", causality_id |-> "c2"] }

\* Mutant of CausalityStoreAppend: an attribution whose id is stored replaces
\* the stored one.
CausalityStoreAppend_Overwrite(attribution) ==
  /\ Len(store_calls) < MaxStoreOps
  /\ LET existed == attribution.causality_id \in DOMAIN attributions
         size == Cardinality(DOMAIN attributions)
     IN IF attribution.class # "CausalityAttribution"
        THEN /\ UNCHANGED <<attributions, by_discrepancy>>
             /\ store_calls' = Append(store_calls,
                  StoreCall("causality", attribution, existed,
                            Some(<<"Expected CausalityAttribution instance, got ",
                                   attribution.class>>), size, size))
        ELSE /\ attributions' = Put(attributions, attribution.causality_id, attribution)
             /\ by_discrepancy' =
                  Put(by_discrepancy, attribution.discrepancy_id,
                      Append(Get(by_discrepancy, attribution.discrepancy_id, <<>>),
                             attribution.causality_id))
             /\ store_calls' = Append(store_calls,
                  StoreCall("causality", attribution, existed, None, size,
                            Cardinality(DOMAIN attributions')))
  /\ UNCHANGED <<links, link_ids, gvars, ivars, nonStores>>

\* AppendOnlyCausalityStore.append
CausalityStoreAppend(attribution) ==
  /\ Len(store_calls) < MaxStoreOps
  /\ LET existed == attribution.causality_id \in DOMAIN attributions
         size == Cardinality(DOMAIN attributions)
     IN IF attribution.class # "CausalityAttribution"
        THEN /\ UNCHANGED <<attributions, by_discrepancy>>
             /\ store_calls' = Append(store_calls,
                  StoreCall("causality", attribution, existed,
                            Some(<<"Expected CausalityAttribution instance, got ",
                                   attribution.class>>), size, size))
        ELSE IF attribution.causality_id \in DOMAIN attributions
        THEN /\ UNCHANGED <<attributions, by_discrepancy>>
             /\ store_calls' = Append(store_calls,
                  StoreCall("causality", attribution, existed,
                            Some(<<"WORM violation: causality_id '",
                                   attribution.causality_id, "' already exists. ",
                                   "Cannot overwrite existing attribution.">>),
                            size, size))
        ELSE /\ attributions' = Put(attributions, attribution.causality_id, attribution)
             /\ by_discrepancy' =
                  Put(by_discrepancy, attribution.discrepancy_id,
                      Append(Get(by_discrepancy, attribution.discrepancy_id, <<>>),
                             attribution.causality_id))
             /\ store_calls' = Append(store_calls,
                  StoreCall("causality", attribution, existed, None, size,
                            Cardinality(DOMAIN attributions')))
  /\ UNCHANGED <<links, link_ids, gvars, ivars, nonStores>>

\* AppendOnlyCausalityStore.list_by_discrepancy
list_by_discrepancy(discrepancy_id) ==
  LET causality_ids == Get(by_discrepancy, discrepancy_id, <<>>)
  IN [i \in 1..Len(causality_ids) |-> attributions[causality_ids[i]]]

\* The dicts passed to IngestRecordStore.append directly.
IngestRecords ==
  { [ingest_id |-> "i1", raw_payload_hash |-> "h1", idempotency_decision |-> "ACCEPT"],
    [ingest_id |-> "i1", raw_payload_hash |-> "h2", idempotency_decision |-> "REJECT_DUPLICATE"],
    [ingest_id |-> "i2", raw_payload_hash |-> "h1", idempotency_decision |-> "ACCEPT"] }

\* IngestRecordStore.append, called by a caller who builds the record.
IngestStoreAppend(record) ==
  /\ Len(store_calls) < MaxStoreOps
  /\ LET after == IngestRecordStore_append(ing_records[1], hash_index[1], record)
         existed == \E i \in 1..Len(ing_records[1]) :
                      ing_records[1][i].ingest_id = record.ingest_id
     IN /\ ing_records' = [ing_records EXCEPT ![1] = after.records]
        /\ hash_index' = [hash_index EXCEPT ![1] = after.index]
        /\ store_calls' = Append(store_calls,
             StoreCall("ingest", record, existed, None,
                       Len(ing_records[1]), Len(ing_records'[1])))
  /\ UNCHANGED <<seen_events, raw_payloads, ing_calls, links, link_ids,
                 attributions, by_discrepancy, gvars, nonStores>>

\* IngestRecordStore.scan_by_raw_payload_hash on the store of pair s
scan_by_raw_payload_hash(s, raw_payload_hash) ==
  IF raw_payload_hash \notin DOMAIN hash_index[s] THEN <<>>
  ELSE LET ingest_ids == hash_index[s][raw_payload_hash]
           In(r) == \E i \in 1..Len(ingest_ids) : ingest_ids[i] = r.ingest_id
       IN SelectSeq(ing_records[s], In)

\* The records passed to InMemoryIdempotencyStore.append directly.
IdempotencyRecords ==
  { BuildRecord("r1", KeyC, ACCEPT_FIRST, 0, 0, <<"worm-1">>, None),
    BuildRecord("r1", KeyC, REJECT_DUPLICATE, 0, 0, <<"worm-2">>, None),
    BuildRecord("r2", KeyD, ACCEPT_FIRST, 0, 0, <<"worm-3">>, None) }

\* InMemoryIdempotencyStore.append, called by one caller at a time.
IdempotencyStoreAppend(record) ==
  /\ Len(store_calls) < MaxStoreOps
  /\ LET key == record.idempotency_key
         existed == \E i \in 1..Len(append_log) :
                      append_log[i].idempotency_record_id = record.idempotency_record_id
     IN /\ IF records_by_key[key] = 0
           THEN /\ lists' = Append(lists, <<record>>)
                /\ records_by_key' = [records_by_key EXCEPT ![key] = Len(lists) + 1]
           ELSE /\ lists' = [lists EXCEPT ![records_by_key[key]] = Append(@, record)]
                /\ UNCHANGED records_by_key
        /\ append_log' = Append(append_log, record)
        /\ store_calls' = Append(store_calls,
             StoreCall("idempotency", record, existed, None,
                       Len(append_log), Len(append_log')))
  /\ UNCHANGED <<entries, entry_map, clock, th, execution_count, hist, started,
                 others, verify, deterministic, links, link_ids, attributions,
                 by_discrepancy, ivars, nonStores>>

\* persist_links turned into an upsert: a link whose link_id is stored
\* replaces the stored one.
persist_links_Upsert(link_list, stored, ids) ==
  LET RECURSIVE loop(_)
      loop(n) ==
        IF n = 0 THEN [links |-> stored, link_ids |-> ids, raised |-> None]
        ELSE LET sofar == loop(n - 1)
                 link == link_list[n]
             IN  IF link.link_id \in sofar.link_ids
                 THEN [sofar EXCEPT !.links =
                         [i \in DOMAIN @ |-> IF @[i].link_id = link.link_id
                                             THEN link ELSE @[i]]]
                 ELSE [sofar EXCEPT !.links = Append(@, link),
                                    !.link_ids = @ \cup {link.link_id}]
  IN  loop(Len(link_list))

\* CorrelationEngine.persist_links: store.append of each link in turn; the
\* first append that raises ends the call, the links appended before it stay.
persist_links(link_list, stored, ids) ==
  LET RECURSIVE loop(_)
      loop(n) ==
        IF n = 0 THEN [links |-> stored, link_ids |-> ids, raised |-> None]
        ELSE LET sofar == loop(n - 1)
                 link == link_list[n]
             IN  IF sofar.raised # None THEN sofar
                 ELSE IF link.link_id \in sofar.link_ids
                 THEN [sofar EXCEPT !.raised = Some(<<"Duplicate link_id: ", link.link_id>>)]
                 ELSE [sofar EXCEPT !.links = Append(@, link),
                                    !.link_ids = @ \cup {link.link_id}]
  IN  loop(Len(link_list))

InitPersist == persist_calls = <<>>

PersistLinks(link_list) ==
  LET out == persist_links(link_list, links, link_ids)
  IN  /\ Len(persist_calls) < MaxPersists
      /\ links' = out.links
      /\ link_ids' = out.link_ids
      /\ persist_calls' = Append(persist_calls,
           [links |-> link_list, raised |-> out.raised,
            stored_before |-> links, stored_after |-> out.links])
      /\ UNCHANGED nonPersist

\* -------------------------------------------------------- identity decider
\* An event is a dict from field names to values <<type, text>>, as the JSON
\* values of the ingest; dict.get gives None for a field that is absent.
\* The events the callers pass: a payment, the same payment with another
\* amount, one whose amount is NaN, one whose source_event_id is the empty
\* string, and one without a source_event_id.
DeciderEvents ==
  { [event_id |-> <<"str", "evt_001">>, source_event_id |-> <<"str", "txn_12345">>,
     source_system |-> <<"str", "BANK">>, amount |-> <<"float", "100.5">>,
     currency |-> <<"str", "USD">>],
    [event_id |-> <<"str", "evt_002">>, source_event_id |-> <<"str", "txn_12345">>,
     source_system |-> <<"str", "BANK">>, amount |-> <<"float", "200.0">>,
     currency |-> <<"str", "USD">>],
    [event_id |-> <<"str", "evt_003">>, source_event_id |-> <<"str", "txn_777">>,
     source_system |-> <<"str", "BANK">>, amount |-> <<"float", "nan">>,
     currency |-> <<"str", "USD">>],
    [event_id |-> <<"str", "evt_004">>, source_event_id |-> <<"str", "">>,
     source_system |-> <<"str", "BANK">>, amount |-> <<"float", "100.5">>,
     currency |-> <<"str", "USD">>],
    [event_id |-> <<"str", "evt_005">>,
     source_system |-> <<"str", "BANK">>, amount |-> <<"float", "100.5">>,
     currency |-> <<"str", "USD">>] }

\* val1 != val2: values of the events above differ when their type or text
\* differs, and a float NaN differs from every value, itself included.
NotEqual(val1, val2) == val1 # val2 \/ val1 = <<"float", "nan">>

\* bool(value): None, "", 0 and 0.0 are false.
Truthy(value) ==
  /\ value # None
  /\ ~(value[1] = "str" /\ value[2] = "")
  /\ ~(value[1] \in {"int", "float"} /\ value[2] \in {"0", "0.0"})

\* IdentityDecider._find_conflicts
_find_conflicts(event1, event2) ==
  LET critical_fields == <<"amount", "currency", "direction", "event_type", "source_system">>
      Differs(field) == NotEqual(Get(event1, field, None), Get(event2, field, None))
  IN SelectSeq(critical_fields, Differs)

\* IdentityDecider.decide; existing is the sequence of (key, event) pairs
\* of the dict, in insertion order.
decide(idempotency_key, event, existing) ==
  LET with_key == {i \in 1..Len(existing) : existing[i][1] = idempotency_key}
      source_id == Get(event, "source_event_id", None)
      same_source == {i \in 1..Len(existing) :
                        Get(existing[i][2], "source_event_id", None) = source_id}
  IN IF Len(existing) = 0
     THEN [decision |-> "ACCEPT", matched_event_id |-> None, match_score |-> "0.0",
           conflicting_fields |-> <<>>, reason |-> <<"No existing events">>]
     ELSE IF with_key # {}
     THEN LET existing_event == existing[CHOOSE i \in with_key : TRUE][2]
              conflicts == _find_conflicts(event, existing_event)
          IN IF conflicts = <<>>
             THEN [decision |-> "REJECT_DUPLICATE",
                   matched_event_id |-> Get(existing_event, "event_id", None),
                   match_score |-> "1.0", conflicting_fields |-> <<>>,
                   reason |-> <<"Exact duplicate of event ",
                                Get(existing_event, "event_id", None)>>]
             ELSE [decision |-> "FLAG_AMBIGUOUS",
                   matched_event_id |-> Get(existing_event, "event_id", None),
                   match_score |-> "0.5", conflicting_fields |-> conflicts,
                   reason |-> <<"Partial match (same key, different fields) with event ",
                                Get(existing_event, "event_id", None)>>]
     ELSE IF Truthy(source_id) /\ same_source # {}
     THEN LET existing_evt ==
                existing[CHOOSE i \in same_source : \A j \in same_source : i <= j][2]
          IN [decision |-> "FLAG_AMBIGUOUS",
              matched_event_id |-> Get(existing_evt, "event_id", None),
              match_score |-> "0.5",
              conflicting_fields |-> _find_conflicts(event, existing_evt),
              reason |-> <<"Identity collision on source_event_id: ", source_id>>]
     ELSE [decision |-> "ACCEPT", matched_event_id |-> None, match_score |-> "0.0",
           conflicting_fields |-> <<>>,
           reason |-> <<"No existing event matches this identity">>]

\* One turn of the caller's loop: decide, then after an ACCEPT
\* existing_events[idempotency_key] = event.copy().
DecideCall(idempotency_key, event) ==
  /\ Len(decide_calls) < MaxDecides
  /\ LET match == decide(idempotency_key, event, existing_events)
     IN /\ decide_calls' = Append(decide_calls,
             [idempotency_key |-> idempotency_key, event |-> event,
              existing |-> existing_events, match |-> match])
        /\ existing_events' =
             IF match.decision = "ACCEPT"
             THEN Append(existing_events, <<idempotency_key, event>>)
             ELSE existing_events
  /\ UNCHANGED nonDecider

\* ---------------------------------------------------------- lineage links
\* A lineage link is a dict of type, target_event_id, evidence and version;
\* a ValidationResult is (valid, evidence), the evidence being the reason of
\* a rejection.
validate_append_only(previous_links, current_links) ==
  LET \* the hash of json.dumps(link_data, sort_keys=True): the four fields
      \* in the order of their names, a missing one read as ""
      link_key(link) ==
        sha256_hex(<<"evidence", Get(link, "evidence", ""),
                     "target_event_id", Get(link, "target_event_id", ""),
                     "type", Get(link, "type", ""),
                     "version", Get(link, "version", "")>>)
      \* f"{type}:{target_event_id}", a missing field printed as None
      link_identity(link) ==
        <<Get(link, "type", "None"), ":", Get(link, "target_event_id", "None")>>
      \* {link_identity(link): link for link in links}: a later link of the
      \* list replaces an earlier one of the same identity
      RECURSIVE identities(_, _)
      identities(link_list, n) ==
        IF n = 0 THEN <<>>
        ELSE Put(identities(link_list, n - 1),
                 link_identity(link_list[n]), link_list[n])
      previous_keys == {link_key(previous_links[i]) : i \in DOMAIN previous_links}
      current_keys == {link_key(current_links[i]) : i \in DOMAIN current_links}
      deleted_keys == previous_keys \ current_keys
      previous_identities == identities(previous_links, Len(previous_links))
      current_identities == identities(current_links, Len(current_links))
  IN  IF deleted_keys # {}
      THEN [valid |-> FALSE,
            evidence |-> Some("Lineage links cannot be deleted (append-only violation)")]
      ELSE IF \E identity \in DOMAIN previous_identities :
                /\ identity \in DOMAIN current_identities
                /\ link_key(previous_identities[identity])
                     # link_key(current_identities[identity])
      THEN [valid |-> FALSE,
            evidence |-> Some("Lineage link cannot be modified (append-only violation)")]
      ELSE [valid |-> TRUE, evidence |-> None]

\* all_events is None when the caller leaves it out, else Some(map).
validate_no_cycles(event_id, lineage_links, all_events) ==
  IF all_events = None \/ DOMAIN all_events[1] = {}
  THEN [valid |-> TRUE, evidence |-> None]
  ELSE IF \E i \in DOMAIN lineage_links :
            Get(lineage_links[i], "target_event_id", None) = event_id
  THEN [valid |-> FALSE,
        evidence |-> Some("Lineage link cannot point to self (cycle detected)")]
  ELSE [valid |-> TRUE, evidence |-> None]

InitLineage ==
  lin_call = [op |-> "none", event_id |-> None, previous_links |-> <<>>,
              lineage_links |-> <<>>, all_events |-> None,
              result |-> [valid |-> TRUE, evidence |-> None]]

ValidateAppendOnly(previous_links, current_links) ==
  /\ lin_call' = [op |-> "validate_append_only", event_id |-> None,
                  previous_links |-> previous_links,
                  lineage_links |-> current_links, all_events |-> None,
                  result |-> validate_append_only(previous_links, current_links)]
  /\ UNCHANGED nonLineage

ValidateNoCycles(event_id, lineage_links, all_events) ==
  /\ lin_call' = [op |-> "validate_no_cycles", event_id |-> Some(event_id),
                  previous_links |-> <<>>, lineage_links |-> lineage_links,
                  all_events |-> all_events,
                  result |-> validate_no_cycles(event_id, lineage_links, all_events)]
  /\ UNCHANGED nonLineage

\* ------------------------------------------- normalization and registries
\* _create_failed_result, without its append to the diff store.
_create_failed_result_NoDiff(ingest_record, warnings, store) ==
  [raised |-> None, canonical_event |-> None,
   normalization_result |->
     Some([event_id |-> None, normalizer_version |-> "1.0.0",
           applied_rules |-> <<>>, warnings |-> warnings,
           diff_reference |-> <<"diff:", uuid4("DiffStore", Cardinality(DOMAIN store) + 1)>>]),
   diffs |-> store]

\* _create_failed_result: DiffStore.append of the minimal diff document under
\* a fresh reference f"diff:{uuid4()}", then the result that carries it.
_create_failed_result(ingest_record, warnings, store) ==
  LET diff_document ==
        [raw_pointer |-> ingest_record.raw_pointer,
         applied_rule |-> [rule_id |-> "NONE", rule_version |-> "NONE",
                           normalizer_version |-> "1.0.0"],
         mappings_applied |-> <<>>, warnings |-> warnings]
      diff_reference == <<"diff:", uuid4("DiffStore", Cardinality(DOMAIN store) + 1)>>
  IN  [raised |-> None, canonical_event |-> None,
       normalization_result |->
         Some([event_id |-> None, normalizer_version |-> "1.0.0",
               applied_rules |-> <<>>, warnings |-> warnings,
               diff_reference |-> diff_reference]),
       diffs |-> Put(store, diff_reference, diff_document)]

\* normalize_ingest_record: what it raises or returns, and the diff store it
\* leaves.  raw_pointer is <<prefix, hash>>; a path is the list of its
\* dot-separated keys; the rules here set top-level canonical fields.
normalize_ingest_record(ingest_record, raw_store, rule_registry, store) ==
  LET raw_pointer == ingest_record.raw_pointer
      key == <<ingest_record.source_system, ingest_record.raw_format,
               Get(ingest_record, "schema_hint", "default")>>
      rule == rule_registry[key]
      raw_data == json_loads(raw_store[raw_pointer[2]][1])
      \* _extract_field: None unless every key of the path leads into a dict
      \* (the members of the payloads here are scalars)
      _extract_field(path) ==
        IF raw_data.kind = "dict" /\ Len(path) = 1 /\ path[1] \in DOMAIN raw_data.value
        THEN Some(raw_data.value[path[1]])
        ELSE None
      RECURSIVE apply(_)
      \* the loop over rule["mapping"], up to its n-th mapping
      apply(n) ==
        IF n = 0
        THEN [canonical_event |-> <<>>, mappings_applied |-> <<>>, warnings |-> <<>>]
        ELSE LET sofar == apply(n - 1)
                 mapping == rule.mapping[n]
                 value == _extract_field(mapping.raw_path)
             IN  IF value # None
                 THEN [sofar EXCEPT
                         !.canonical_event = Put(@, mapping.canonical_path[1], value[1]),
                         !.mappings_applied = Append(@, mapping)]
                 ELSE [sofar EXCEPT
                         !.canonical_event = Put(@, mapping.canonical_path[1], <<"str", "UNKNOWN">>),
                         !.warnings = Append(@, <<"Field not found, set UNKNOWN", mapping.raw_path>>)]
      done == apply(Len(rule.mapping))
      canonical_event ==
        Put(done.canonical_event, "event_id",
            <<"str", Get(ingest_record, "event_id", "UNKNOWN")>>)
      applied_rule == [rule_id |-> rule.rule_id, rule_version |-> rule.rule_version,
                       normalizer_version |-> rule.normalizer_version]
      diff_document == [raw_pointer |-> raw_pointer, applied_rule |-> applied_rule,
                        mappings_applied |-> done.mappings_applied,
                        warnings |-> done.warnings]
      diff_reference == <<"diff:", uuid4("DiffStore", Cardinality(DOMAIN store) + 1)>>
  IN  IF raw_pointer[1] # "raw:"
      THEN [raised |-> Some("ValueError"), canonical_event |-> None,
            normalization_result |-> None, diffs |-> store]
      ELSE IF raw_pointer[2] \notin DOMAIN raw_store
      THEN _create_failed_result(ingest_record,
             << <<"Raw payload not found: ", raw_pointer>> >>, store)
      ELSE IF key \notin DOMAIN rule_registry
      THEN _create_failed_result(ingest_record,
             << <<"No normalization rule for ", key[1], key[2], "default">> >>, store)
      ELSE IF ingest_record.raw_format # "json" \/ raw_data.kind = "JSONDecodeError"
      THEN _create_failed_result(ingest_record,
             << <<"Failed to parse raw payload: ", raw_data.kind>> >>, store)
      ELSE [raised |-> None, canonical_event |-> Some(canonical_event),
            normalization_result |->
              Some([event_id |-> Some(canonical_event["event_id"]),
                    normalizer_version |-> "1.0.0",
                    applied_rules |-> <<applied_rule>>,
                    warnings |-> done.warnings,
                    diff_reference |-> diff_reference]),
            diffs |-> Put(store, diff_reference, diff_document)]

\* resolve returning the first entry that is effective at the timestamp.
resolve_Earliest(registry, component, timestamp) ==
  LET active_versions ==
        SelectSeq(Get(registry, component, <<>>), LAMBDA v : v.effective_at <= timestamp)
  IN  IF active_versions = <<>> THEN None ELSE Some(active_versions[1])

\* VersionResolver.resolve: the last entry of the component's list that is
\* effective at the timestamp, or None.
resolve(registry, component, timestamp) ==
  LET active_versions ==
        SelectSeq(Get(registry, component, <<>>), LAMBDA v : v.effective_at <= timestamp)
  IN  IF active_versions = <<>> THEN None
      ELSE Some(active_versions[Len(active_versions)])

InitRegistries ==
  /\ rules = <<>>
  /\ versions = <<>>
  /\ diffs = <<>>
  /\ reg_calls = <<>>

\* RuleRegistry.register: self._rules[key] = rule.
RegisterRule(rule) ==
  LET sig == rule.input_signature
      key == <<sig.source_system, sig.raw_format, sig.schema_hint>>
  IN  /\ Len(reg_calls) < MaxRegistryOps
      /\ rules' = Put(rules, key, rule)
      /\ reg_calls' = Append(reg_calls,
           [op |-> "RuleRegistry.register", input |-> rule, returned |-> None,
            diffs_before |-> diffs])
      /\ UNCHANGED <<versions, diffs, nonRegistries>>

\* A call of normalize_ingest_record with the rule registry and the diff
\* store.
Normalize(ingest_record, raw_store) ==
  LET out == normalize_ingest_record(ingest_record, raw_store, rules, diffs)
  IN  /\ Len(reg_calls) < MaxRegistryOps
      /\ diffs' = out.diffs
      /\ reg_calls' = Append(reg_calls,
           [op |-> "normalize_ingest_record", input |-> ingest_record,
            returned |-> out, diffs_before |-> diffs])
      /\ UNCHANGED <<rules, versions, nonRegistries>>

\* VersionRegistry.register: append the entry to the component's list, then
\* list.sort(key=effective_at), which is stable.
RegisterVersion(component, version, effective_at) ==
  LET entry == [component |-> component, version |-> version,
                effective_at |-> effective_at, description |-> ""]
      appended == Append(Get(versions, component, <<>>), entry)
      RECURSIVE sorted(_)
      \* the stable sort of the first n entries: the n-th goes after the
      \* entries that are not later than it
      sorted(n) ==
        IF n = 0 THEN <<>>
        ELSE LET before == sorted(n - 1)
                 x == appended[n]
                 head == SelectSeq(before, LAMBDA v : v.effective_at <= x.effective_at)
                 tail == SelectSeq(before, LAMBDA v : v.effective_at > x.effective_at)
             IN  head \o <<x>> \o tail
  IN  /\ Len(reg_calls) < MaxRegistryOps
      /\ versions' = Put(versions, component, sorted(Len(appended)))
      /\ reg_calls' = Append(reg_calls,
           [op |-> "VersionRegistry.register", input |-> entry, returned |-> None,
            diffs_before |-> diffs])
      /\ UNCHANGED <<rules, diffs, nonRegistries>>

\* A call of VersionResolver.resolve on the registry.
Resolve(component, timestamp) ==
  /\ Len(reg_calls) < MaxRegistryOps
  /\ reg_calls' = Append(reg_calls,
       [op |-> "VersionResolver.resolve",
        input |-> [component |-> component, timestamp |-> timestamp],
        returned |-> resolve(versions, component, timestamp),
        diffs_before |-> diffs])
  /\ UNCHANGED <<rules, versions, diffs, nonRegistries>>
\* ------------------------------------------------------ money-state machine
\* A transition rule is (from_state, to_state, required_evidence,
\* forbidden_evidence); evidence lists are sets here, being read by
\* membership only.  A confidence is held in tenths: 5 is 0.5.
\* list_transitions(): the declared rules, sorted by (from_state, to_state)
\* in the order of the state names as strings.
list_transitions ==
  LET T(from_state, to_state, required_evidence, forbidden_evidence) ==
        [from_state |-> from_state, to_state |-> to_state,
         required_evidence |-> required_evidence,
         forbidden_evidence |-> forbidden_evidence]
      transitions == <<
        T("EXPECTED", "INITIATED", {"INITIATION_SIGNAL"}, {}),
        T("INITIATED", "AUTHORIZED", {"AUTHORIZATION_CONFIRMATION"}, {"AUTHORIZATION_DENIAL"}),
        T("AUTHORIZED", "IN_TRANSIT", {"PROCESSING_START"}, {}),
        T("IN_TRANSIT", "SETTLED", {"SETTLEMENT_CONFIRMATION"},
          {"PROCESSING_FAILURE", "SETTLEMENT_REJECTION"}),
        T("INITIATED", "FAILED", {"AUTHORIZATION_DENIAL", "INITIATION_FAILURE"}, {}),
        T("AUTHORIZED", "FAILED", {"PROCESSING_FAILURE"}, {}),
        T("IN_TRANSIT", "FAILED", {"PROCESSING_FAILURE", "SETTLEMENT_REJECTION"},
          {"SETTLEMENT_CONFIRMATION"}),
        T("SETTLED", "REFUNDED", {"REFUND_REQUEST", "REFUND_CONFIRMATION"}, {}),
        T("SETTLED", "REVERSED", {"REVERSAL_REQUEST", "REVERSAL_CONFIRMATION"}, {}),
        T("AUTHORIZED", "EXPIRED", {"TIMEOUT_EXCEEDED"}, {"PROCESSING_START"}),
        T("IN_TRANSIT", "AMBIGUOUS", {}, {}),
        T("AUTHORIZED", "AMBIGUOUS", {}, {}),
        T("EXPECTED", "UNKNOWN", {}, {}) >>
      \* the state names in the order of str: "INITIATED" < "IN_TRANSIT"
      \* because "I" sorts before "_"
      names == <<"AMBIGUOUS", "AUTHORIZED", "EXPECTED", "EXPIRED", "FAILED",
                 "INITIATED", "IN_TRANSIT", "REFUNDED", "REVERSED", "SETTLED",
                 "UNKNOWN">>
      rank(state) == CHOOSE i \in DOMAIN names : names[i] = state
      NotAfter(a, b) ==
        \/ rank(a.from_state) < rank(b.from_state)
        \/ a.from_state = b.from_state /\ rank(a.to_state) <= rank(b.to_state)
      RECURSIVE sorted(_)
      sorted(n) ==
        IF n = 0 THEN <<>>
        ELSE LET before == sorted(n - 1)
                 x == transitions[n]
             IN  SelectSeq(before, LAMBDA t : NotAfter(t, x)) \o <<x>>
                   \o SelectSeq(before, LAMBDA t : ~NotAfter(t, x))
  IN  sorted(Len(transitions))

\* _determine_state, its test for contradictory evidence, with
\* SETTLEMENT_REJECTION left out of the failure signals.
contradictory_ProcessingOnly(available_evidence) ==
  /\ "SETTLEMENT_CONFIRMATION" \in available_evidence
  /\ "PROCESSING_FAILURE" \in available_evidence

\* _determine_state, its test for contradictory evidence: has_settlement and
\* has_failure.
contradictory(available_evidence) ==
  /\ "SETTLEMENT_CONFIRMATION" \in available_evidence
  /\ \/ "PROCESSING_FAILURE" \in available_evidence
     \/ "SETTLEMENT_REJECTION" \in available_evidence

\* The pattern-based defaults, INITIATED taken when nothing matches.
by_patterns_NoUnknown(available_evidence) ==
  IF "SETTLEMENT_CONFIRMATION" \in available_evidence
  THEN <<"SETTLED", "Settlement evidence found", 9>>
  ELSE IF "PROCESSING_FAILURE" \in available_evidence
  THEN <<"FAILED", "Failure evidence found", 9>>
  ELSE IF "AUTHORIZATION_CONFIRMATION" \in available_evidence
  THEN <<"AUTHORIZED", "Authorization evidence found", 7>>
  ELSE <<"INITIATED", "Initiation evidence found", 7>>

\* _determine_state, what it returns when no transition is possible: the
\* state a pattern of evidence stands for, else UNKNOWN.
by_patterns(available_evidence) ==
  IF "SETTLEMENT_CONFIRMATION" \in available_evidence
  THEN <<"SETTLED", "Settlement evidence found", 9>>
  ELSE IF "PROCESSING_FAILURE" \in available_evidence
  THEN <<"FAILED", "Failure evidence found", 9>>
  ELSE IF "AUTHORIZATION_CONFIRMATION" \in available_evidence
  THEN <<"AUTHORIZED", "Authorization evidence found", 7>>
  ELSE IF "INITIATION_SIGNAL" \in available_evidence
  THEN <<"INITIATED", "Initiation evidence found", 7>>
  ELSE <<"UNKNOWN", "Insufficient evidence", 1>>

\* The transitions of the machine that _determine_state takes as possible.
Possible(transitions, available_evidence) ==
  SelectSeq(transitions,
            LAMBDA t : /\ t.required_evidence \subseteq available_evidence
                       /\ t.forbidden_evidence \cap available_evidence = {})

_determine_state(transitions, available_evidence) ==
  LET possible == Possible(transitions, available_evidence)
      \* (to_state, reason, confidence): 0.8, has_required being true here
      possible_states ==
        [i \in DOMAIN possible |->
           <<possible[i].to_state,
             <<"Transition from ", possible[i].from_state, " to ", possible[i].to_state>>,
             8>>]
      state_names == {possible_states[i][1] : i \in DOMAIN possible_states}
      \* sort(key=confidence, reverse=True) is stable: the first of the
      \* states of highest confidence comes first
      best == CHOOSE i \in DOMAIN possible_states :
                /\ \A j \in DOMAIN possible_states :
                     possible_states[j][3] <= possible_states[i][3]
                /\ \A j \in 1..(i - 1) : possible_states[j][3] < possible_states[i][3]
  IN  IF contradictory(available_evidence)
      THEN <<"AMBIGUOUS",
             "Contradictory evidence: both settlement and failure signals detected", 5>>
      ELSE IF possible_states = <<>>
      THEN by_patterns(available_evidence)
      ELSE IF /\ Len(possible_states) > 1
              /\ \/ {"SETTLED", "FAILED"} \subseteq state_names
                 \/ {"AUTHORIZED", "FAILED"} \subseteq state_names
      THEN <<"AMBIGUOUS",
             "Multiple plausible states detected: conflicting terminal states", 5>>
      ELSE <<possible_states[best][1], possible_states[best][2],
             IF possible_states[best][3] < 10 THEN possible_states[best][3] ELSE 10>>

InitMoneyState ==
  ms_call = [made |-> FALSE, transitions |-> <<>>, available_evidence |-> {},
             returned |-> None]

\* MoneyStateMachine.evaluate on a machine built with the transitions: the
\* evidence the events and links stand for, the state determined from it,
\* and the evaluation returned.  The events here carry no event_id and no
\* timestamp, so the primary event_id and timestamp are "".
EvaluateFlow(transitions, canonical_events, correlation_links) ==
  LET of_event(event_type) ==
        CASE event_type = "payment_initiated" -> {"INITIATION_SIGNAL"}
          [] event_type = "authorization_confirmed" -> {"AUTHORIZATION_CONFIRMATION"}
          [] event_type = "authorization_denied" -> {"AUTHORIZATION_DENIAL"}
          [] event_type = "processing_started" -> {"PROCESSING_START"}
          [] event_type = "settlement_confirmed" -> {"SETTLEMENT_CONFIRMATION"}
          [] event_type = "processing_failed" -> {"PROCESSING_FAILURE"}
          [] event_type = "settlement_rejected" -> {"SETTLEMENT_REJECTION"}
          [] event_type = "refund_requested" -> {"REFUND_REQUEST"}
          [] event_type = "refund_confirmed" -> {"REFUND_CONFIRMATION"}
          [] event_type = "reversal_requested" -> {"REVERSAL_REQUEST"}
          [] event_type = "reversal_confirmed" -> {"REVERSAL_CONFIRMATION"}
          [] event_type = "timeout_exceeded" -> {"TIMEOUT_EXCEEDED"}
          [] OTHER -> {}
      of_link(link_type) ==
        CASE link_type = "SEQUENCE" -> {"SEQUENCE_OBSERVED"}
          [] link_type = "REVERSAL" -> {"REVERSAL_LINK"}
          [] link_type = "REFUND" -> {"REFUND_LINK"}
          [] OTHER -> {}
      \* _extract_evidence
      available_evidence ==
        UNION ({of_event(Get(canonical_events[i], "event_type", "")) :
                  i \in DOMAIN canonical_events}
               \cup {of_link(Get(correlation_links[i], "link_type", "")) :
                       i \in DOMAIN correlation_links})
      determined == _determine_state(transitions, available_evidence)
      evaluation ==
        [evaluation_id |->
           <<"md5", "flow-1", [i \in DOMAIN canonical_events |-> ""],
             [i \in DOMAIN correlation_links |-> ""],
             "2026-01-23T10:00:00Z", "evidence:flow-1">>,
         flow_id |-> "flow-1", event_id |-> "", timestamp |-> "",
         state |-> determined[1], transition_reason |-> determined[2],
         evidence_pointer |-> "evidence:flow-1", state_version |-> "v1",
         machine_version |-> "v1", confidence_level |-> determined[3],
         evaluated_at |-> "2026-01-23T10:00:00Z"]
  IN  /\ ~ms_call.made
      /\ ms_call' = [made |-> TRUE, transitions |-> transitions,
                     available_evidence |-> available_evidence,
                     returned |-> Some(evaluation)]
      /\ UNCHANGED nonMoneyState
\* -------------------------------------------------------- causality engine
\* A confidence is held in tenths.  A rule is given by what its attribute
\* method does for the discrepancy: the attributions it returns, or None
\* when it raises.
\* _create_unknown_cause, naming a cause with some confidence.
_create_unknown_cause_Guess(discrepancy_id, attributed_at, model_version) ==
  [causality_id |-> <<"cause-unknown-", discrepancy_id>>,
   discrepancy_id |-> discrepancy_id, cause_type |-> "SOURCE_OMISSION",
   confidence_level |-> 1, supporting_rules |-> <<"causality-engine-fallback">>,
   explanation |-> "No causal rule produced defendable attribution with available evidence",
   attributed_at |-> attributed_at, model_version |-> model_version]

_create_unknown_cause(discrepancy_id, attributed_at, model_version) ==
  [causality_id |-> <<"cause-unknown-", discrepancy_id>>,
   discrepancy_id |-> discrepancy_id, cause_type |-> "UNKNOWN_CAUSE",
   confidence_level |-> 0, supporting_rules |-> <<"causality-engine-fallback">>,
   explanation |-> "No causal rule produced defendable attribution with available evidence",
   attributed_at |-> attributed_at, model_version |-> model_version]

InitCausality ==
  cs_call = [made |-> FALSE, discrepancy |-> <<>>, rules |-> <<>>,
             raised |-> None, returned |-> <<>>]

\* CausalityEngine.attribute
Attribute(discrepancy, causal_rules, attributed_at, model_version) ==
  LET discrepancy_id == Get(discrepancy, "discrepancy_id", "unknown")
      RECURSIVE collect(_)
      \* the attributions of the first n rules, attributed_at and
      \* model_version injected; None once a rule has raised
      collect(n) ==
        IF n = 0 THEN Some(<<>>)
        ELSE IF collect(n - 1) = None \/ causal_rules[n] = None THEN None
        ELSE Some(collect(n - 1)[1] \o
                  [i \in DOMAIN causal_rules[n][1] |->
                     [causal_rules[n][1][i] EXCEPT !.attributed_at = attributed_at,
                                            !.model_version = model_version]])
      collected == collect(Len(causal_rules))
      all_attributions ==
        IF collected[1] = <<>>
        THEN <<_create_unknown_cause(discrepancy_id, attributed_at, model_version)>>
        ELSE collected[1]
      \* _sort_attributions: by cause_type.value, then confidence
      \* descending, then causality_id, each id being <<prefix, name>>
      types == <<"NORMALIZATION_LOSS", "SOURCE_DELAY", "SOURCE_OMISSION", "UNKNOWN_CAUSE">>
      ids == <<"a", "b", "c", "disc-001", "unknown">>
      rank(order, x) == CHOOSE i \in DOMAIN order : order[i] = x
      NotAfter(a, b) ==
        \/ rank(types, a.cause_type) < rank(types, b.cause_type)
        \/ /\ a.cause_type = b.cause_type
           /\ \/ a.confidence_level > b.confidence_level
              \/ /\ a.confidence_level = b.confidence_level
                 /\ rank(ids, a.causality_id[2]) <= rank(ids, b.causality_id[2])
      RECURSIVE sorted(_)
      sorted(n) ==
        IF n = 0 THEN <<>>
        ELSE LET before == sorted(n - 1)
                 x == all_attributions[n]
             IN  SelectSeq(before, LAMBDA a : NotAfter(a, x)) \o <<x>>
                   \o SelectSeq(before, LAMBDA a : ~NotAfter(a, x))
      outcome ==
        IF attributed_at = ""
        THEN [raised |-> Some("attributed_at cannot be empty"), returned |-> <<>>]
        ELSE IF model_version = ""
        THEN [raised |-> Some("model_version cannot be empty"), returned |-> <<>>]
        ELSE IF collected = None
        THEN [raised |-> Some("Rule failed"), returned |-> <<>>]
        ELSE [raised |-> None, returned |-> sorted(Len(all_attributions))]
  IN  /\ ~cs_call.made
      /\ cs_call' = [made |-> TRUE, discrepancy |-> discrepancy, rules |-> causal_rules,
                     raised |-> outcome.raised, returned |-> outcome.returned]
      /\ UNCHANGED nonCausality
\* ------------------------------------------------------------ alert builder
\* _classify_alert_type with HIGH classified as an early warning.
_classify_alert_type_HighAsWarning(severity) ==
  IF severity = "CRITICAL" THEN "INSTITUTIONAL_BREACH" ELSE "EARLY_WARNING"

\* AlertBuilder._classify_alert_type, on the value of the severity level.
_classify_alert_type(severity) ==
  IF severity = "CRITICAL" THEN "INSTITUTIONAL_BREACH"
  ELSE IF severity = "HIGH" THEN "RISK_ESCALATION"
  ELSE IF severity = "MEDIUM" THEN "EARLY_WARNING"
  ELSE "EARLY_WARNING"

InitAlerts == alert_calls = <<>>

\* AlertBuilder.build for the aggregate of one window; raised_at is the
\* injected clock reading.  RiskSeverityLevel(value) raises ValueError for a
\* value that is no member.
Build(aggregate, alert_version, raised_at) ==
  LET level == aggregate.overall_risk_level
      alert_type == _classify_alert_type(level)
      drivers == Get(aggregate, "drivers", <<>>)
      \* _build_alert
      signal_ids ==
        IF drivers # <<>> THEN drivers
        ELSE [i \in DOMAIN aggregate.risk_profile |->
                aggregate.risk_profile[i].risk_signal_id]
      alert ==
        [alert_id |-> <<"ALERT_", alert_type, "_", raised_at, "_",
                        sha256_hex(<<alert_type, "_", raised_at>>)>>,
         alert_type |-> alert_type,
         aggregate_id |-> aggregate.aggregate_id,
         signal_ids |-> signal_ids,
         evidence_refs |-> << <<"AGG_EVIDENCE:", aggregate.aggregate_id>> >>,
         potential_impact |-> <<"impact", alert_type, level, Len(drivers)>>,
         operational_recommendation |-> <<"recommendation", alert_type>>,
         raised_at |-> raised_at, alert_version |-> alert_version]
      outcome ==
        IF level \notin {"LOW", "MEDIUM", "HIGH", "CRITICAL"}
        THEN [raised |-> Some("ValueError"), returned |-> <<>>]
        ELSE IF level = "LOW" THEN [raised |-> None, returned |-> <<>>]
        ELSE [raised |-> None, returned |-> <<alert>>]
  IN  /\ Len(alert_calls) < MaxWindows
      /\ alert_calls' = Append(alert_calls,
           [aggregate |-> aggregate, raised |-> outcome.raised,
            returned |-> outcome.returned])
      /\ UNCHANGED nonAlerts
\* ------------------------------------------------------------ change control
\* The ChangeDeclaration dataclass: its generated __init__ stores the
\* arguments and it declares no __post_init__.  change_type and compatibility
\* are members of ChangeType and Compatibility, held by their values.
ChangeDeclaration(rfc_id, change_type, compatibility, effective_at, components_impacted, versions_affected) ==
  [rfc_id |-> rfc_id, change_type |-> change_type,
   compatibility |-> compatibility, effective_at |-> effective_at,
   components_impacted |-> components_impacted,
   versions_affected |-> versions_affected]

InitChanges ==
  /\ declarations = <<>>
  /\ change_events = <<>>

\* Construction of a ChangeDeclaration.
Declare(change_type, compatibility, effective_at) ==
  /\ Len(declarations) < MaxChanges
  /\ declarations' = Append(declarations,
       ChangeDeclaration("RFC-12", change_type, compatibility, effective_at,
                         <<"normalizer">>,
                         <<[component |-> "normalizer", from_version |-> "1.0.0",
                            to_version |-> "2.0.0"]>>))
  /\ UNCHANGED <<change_events, nonChanges>>

\* ChangeEventBuilder.build(declaration); the payload is kept.
BuildChangeEvent(declaration) ==
  LET versions_affected ==
        [i \in DOMAIN declaration.versions_affected |->
           LET vt == declaration.versions_affected[i]
           IN  [component |-> vt.component, from_version |-> vt.from_version,
                to_version |-> vt.to_version]]
      payload ==
        [rfc_id |-> declaration.rfc_id,
         effective_at |-> <<"isoformat", declaration.effective_at>>,
         components_impacted |-> declaration.components_impacted,
         versions_affected |-> versions_affected,
         change_type |-> declaration.change_type,
         compatibility |-> declaration.compatibility]
  IN  /\ Len(change_events) < MaxChanges
      /\ change_events' = Append(change_events, payload)
      /\ UNCHANGED <<declarations, nonChanges>>
\* -------------------------------------------------------- adapter contracts
\* A contract and an ingest declaration are dicts with string keys: functions
\* on their key sets.
\* jsonschema.validate(instance, schema) for a schema that lists required
\* properties: TRUE when it returns, FALSE when it raises ValidationError.
validate(instance, manifest_schema) == manifest_schema.required \subseteq DOMAIN instance

\* IngestDeclaration.validate_no_prohibited_fields: the error it raises, or
\* None.
validate_no_prohibited_fields(data) ==
  LET PROHIBITED_FIELDS == {"event_type", "state", "discrepancy", "cause"}
      found_prohibited == DOMAIN data \cap PROHIBITED_FIELDS
  IN  IF found_prohibited # {} THEN Some("ValueError") ELSE None

InitAdapters ==
  /\ schema = None
  /\ contracts = <<>>
  /\ ingest_call = [made |-> FALSE, adapter_id |-> None, declaration |-> None,
                    raised |-> None]
  /\ suite = None
  /\ report = None

\* AdapterRegistry.load_schema.
LoadSchema(manifest_schema) ==
  /\ schema' = Some(manifest_schema)
  /\ UNCHANGED <<contracts, ingest_call, suite, report, nonAdapters>>

\* AdapterRegistry.register_adapter: raises ValueError, storing nothing,
\* without a schema loaded or for a contract the schema does not validate.
RegisterAdapter(adapter_id, contract) ==
  /\ contracts' = IF schema = None \/ ~validate(contract, schema[1]) THEN contracts
                  ELSE Put(contracts, adapter_id, contract)
  /\ UNCHANGED <<schema, ingest_call, suite, report, nonAdapters>>

\* AdapterRegistry.validate_ingest(adapter_id, declaration).
ValidateIngest(adapter_id, declaration) ==
  LET contract == Get(contracts, adapter_id, None)
      payload_format == Get(declaration, "payload_format", None)
      supported_formats == Get(contract, "supported_formats", <<>>)
      raised ==
        IF contract = None THEN Some("ValueError")
        ELSE IF Get(declaration, "source_system", None) # adapter_id
        THEN Some("ValueError")
        ELSE IF \A i \in DOMAIN supported_formats : supported_formats[i] # payload_format
        THEN Some("ValueError")
        ELSE IF Get(declaration, "adapter_version", "") = "" THEN Some("ValueError")
        ELSE None
  IN  /\ ~ingest_call.made
      /\ ingest_call' = [made |-> TRUE, adapter_id |-> adapter_id,
                         declaration |-> declaration, raised |-> raised]
      /\ UNCHANGED <<schema, contracts, suite, report, nonAdapters>>
\* An adapter's emit function, as the suite sees it: what its n-th call
\* returns for a declaration.  "faithful" copies the four allowed fields,
\* "mutating" changes the payload, "counting" adds the number of the call,
\* "passthrough" returns every field it is given and "raising" raises.
emit_function(kind, declaration, n) ==
  LET allowed == [k \in {"source_system", "payload_raw", "payload_format",
                         "adapter_version"} |-> declaration[k]]
  IN  CASE kind = "raising" -> [raised |-> Some("RuntimeError"), result |-> None]
        [] kind = "mutating" ->
             [raised |-> None,
              result |-> [allowed EXCEPT !["payload_raw"] = <<"mutated">> \o @]]
        [] kind = "counting" ->
             [raised |-> None, result |-> Put(allowed, "attempt", <<n>>)]
        [] kind = "passthrough" -> [raised |-> None, result |-> declaration]
        [] OTHER -> [raised |-> None, result |-> allowed]

\* ConformanceSuite(adapter_id, adapter_contract).  prohibited_order is the
\* order in which this process iterates the set PROHIBITED_FIELDS, which the
\* hashes of its strings decide.  The message of a result, a text for the
\* reader, is left out of the result records.
NewSuite(adapter_id, adapter_contract, prohibited_order) ==
  /\ suite = None
  /\ suite' = Some([adapter_id |-> adapter_id, adapter_contract |-> adapter_contract,
                    prohibited_order |-> prohibited_order, emits |-> 0,
                    runs |-> 0,  \* the run_* calls made, counted to bound them
                    contract_tests_results |-> <<>>,
                    behavioral_tests_results |-> <<>>,
                    negative_tests_results |-> <<>>])
  /\ UNCHANGED <<schema, contracts, ingest_call, report, nonAdapters>>

\* ConformanceSuite.run_contract_tests.
RunContractTests(manifest_schema, sample_declarations) ==
  LET self == suite[1]
      PassIf(test, passed) ==
        [test |-> test, result |-> IF passed THEN "PASS" ELSE "FAIL"]
      required_versions == <<"schema_version", "adapter_version">>
      results ==
        << PassIf(<<"schema_compliance">>, validate(self.adapter_contract, manifest_schema)) >>
        \o [i \in DOMAIN required_versions |->
              PassIf(<<"version_field_", required_versions[i]>>,
                     required_versions[i] \in DOMAIN self.adapter_contract)]
        \o [i \in DOMAIN sample_declarations |->
              PassIf(<<"prohibited_fields_check_", i - 1>>,
                     validate_no_prohibited_fields(sample_declarations[i]) = None)]
  IN  /\ suite # None /\ self.runs < MaxRuns
      /\ suite' = Some([self EXCEPT !.runs = @ + 1,
                                    !.contract_tests_results = @ \o results])
      /\ UNCHANGED <<schema, contracts, ingest_call, report, nonAdapters>>

\* ConformanceSuite.run_behavioral_tests: three calls of the emit function.
RunBehavioralTests(kind, test_payload) ==
  LET self == suite[1]
      PassIf(test, passed) ==
        [test |-> test, result |-> IF passed THEN "PASS" ELSE "FAIL"]
      original_payload == test_payload
      declaration ==
        [k \in {"source_system", "payload_raw", "payload_format", "adapter_version"} |->
           CASE k = "source_system" -> <<self.adapter_id>>
             [] k = "payload_raw" -> test_payload
             [] k = "payload_format" -> <<"JSON">>
             [] OTHER -> Get(self.adapter_contract, "adapter_version", <<"1.0.0">>)]
      first == emit_function(kind, declaration, self.emits + 1)
      result1 == emit_function(kind, declaration, self.emits + 2)
      result2 == emit_function(kind, declaration, self.emits + 3)
      results ==
        << PassIf(<<"payload_immutability">>,
                  /\ first.raised = None
                  /\ Get(first.result, "payload_raw", None) = original_payload),
           PassIf(<<"idempotency">>,
                  /\ result1.raised = None
                  /\ result2.raised = None
                  /\ result1.result = result2.result) >>
  IN  /\ suite # None /\ self.runs < MaxRuns
      /\ suite' = Some([self EXCEPT !.runs = @ + 1,
                                    !.emits = @ + (IF kind = "raising" THEN 2 ELSE 3),
                                    !.behavioral_tests_results = @ \o results])
      /\ UNCHANGED <<schema, contracts, ingest_call, report, nonAdapters>>

\* ConformanceSuite.run_negative_tests: one result for each prohibited field,
\* then the injection test, where an exception counts as a rejection.
RunNegativeTests(kind) ==
  LET self == suite[1]
      PassIf(test, passed) ==
        [test |-> test, result |-> IF passed THEN "PASS" ELSE "FAIL"]
      Declaration(extra) ==
        [k \in {"source_system", "payload_raw", "payload_format", "adapter_version",
                extra} |->
           CASE k = "source_system" -> <<self.adapter_id>>
             [] k = "payload_raw" -> <<"data", "test">>
             [] k = "payload_format" -> <<"JSON">>
             [] k = "adapter_version" -> <<"1.0.0">>
             [] OTHER -> <<"malicious_value">>]
      injected == emit_function(kind, Declaration("custom_business_rule"), self.emits + 1)
      results ==
        [i \in DOMAIN self.prohibited_order |->
           PassIf(<<"reject_prohibited_field_", self.prohibited_order[i]>>,
                  validate_no_prohibited_fields(Declaration(self.prohibited_order[i])) # None)]
        \o << PassIf(<<"reject_domain_logic_injection">>,
                     \/ injected.raised # None
                     \/ "custom_business_rule" \notin DOMAIN injected.result) >>
  IN  /\ suite # None /\ self.runs < MaxRuns
      /\ suite' = Some([self EXCEPT !.runs = @ + 1, !.emits = @ + 1,
                                    !.negative_tests_results = @ \o results])
      /\ UNCHANGED <<schema, contracts, ingest_call, report, nonAdapters>>

\* generate_report with the failed contract tests left out of the overall
\* result.
GenerateReport_IgnoreContract ==
  LET self == suite[1]
      Count(details, result) ==
        Cardinality({i \in DOMAIN details : details[i].result = result})
      Group(details) ==
        [passed |-> Count(details, "PASS"), failed |-> Count(details, "FAIL"),
         details |-> details]
  IN  /\ suite # None
      /\ report' = Some(
           [adapter_id |-> self.adapter_id, test_suite_version |-> "1.0.0",
            contract_tests |-> Group(self.contract_tests_results),
            behavioral_tests |-> Group(self.behavioral_tests_results),
            negative_tests |-> Group(self.negative_tests_results),
            overall_result |->
              IF Count(self.behavioral_tests_results, "FAIL") = 0
                 /\ Count(self.negative_tests_results, "FAIL") = 0
              THEN "PASS" ELSE "FAIL"])
      /\ UNCHANGED <<schema, contracts, ingest_call, suite, nonAdapters>>

\* A call of ConformanceSuite.generate_report, whose report is kept;
\* test_suite_version is "1.0.0".
GenerateReport ==
  LET self == suite[1]
      Count(details, result) ==
        Cardinality({i \in DOMAIN details : details[i].result = result})
      Group(details) ==
        [passed |-> Count(details, "PASS"), failed |-> Count(details, "FAIL"),
         details |-> details]
      contract_failed == Count(self.contract_tests_results, "FAIL")
      behavioral_failed == Count(self.behavioral_tests_results, "FAIL")
      negative_failed == Count(self.negative_tests_results, "FAIL")
      overall_result ==
        IF contract_failed = 0 /\ behavioral_failed = 0 /\ negative_failed = 0
        THEN "PASS" ELSE "FAIL"
  IN  /\ suite # None
      /\ report' = Some(
           [adapter_id |-> self.adapter_id, test_suite_version |-> "1.0.0",
            contract_tests |-> Group(self.contract_tests_results),
            behavioral_tests |-> Group(self.behavioral_tests_results),
            negative_tests |-> Group(self.negative_tests_results),
            overall_result |-> overall_result])
      /\ UNCHANGED <<schema, contracts, ingest_call, suite, nonAdapters>>

\* ---------------------------------------------------------- specifications
InitGuardian ==
  /\ records_by_key = [k \in KeyStrs |-> 0]
  /\ lists = <<>>
  /\ append_log = <<>>
  /\ entries = <<>>
  /\ entry_map = {}
  /\ clock = 0
  /\ th = [t \in Threads |-> Idle]
  /\ execution_count = 0
  /\ hist = <<>>
  /\ started = [t \in Threads |-> 0]
  /\ others = 0
  /\ verify = VerifyIdle
  /\ deterministic = None

InitWorm ==
  /\ worm_entries = <<>>
  /\ worm_next_sequence = 1
  /\ tampered = None

InitEvidence ==
  /\ ev_events = <<>>
  /\ ev_next_sequence = 1
  /\ ev_last_produced_at = None
  /\ ev_event_ids = {}
  /\ ev_calls = <<>>

Stores == 1..NumStores

InitIngest ==
  /\ seen_events = <<>>
  /\ raw_payloads = [s \in Stores |-> <<>>]
  /\ ing_records = [s \in Stores |-> <<>>]
  /\ hash_index = [s \in Stores |-> <<>>]
  /\ ing_calls = <<>>

InitStores ==
  /\ links = <<>>
  /\ link_ids = {}
  /\ attributions = <<>>
  /\ by_discrepancy = <<>>
  /\ store_calls = <<>>

InitDecider ==
  /\ existing_events = <<>>
  /\ decide_calls = <<>>

Init ==
  /\ InitGuardian /\ InitWorm /\ InitEvidence /\ InitIngest /\ InitStores
  /\ InitDecider /\ InitLineage /\ InitRegistries /\ InitPersist /\ InitMoneyState /\ InitCausality /\ InitAlerts /\ InitChanges /\ InitAdapters

Step(t) ==
  \/ FindGet(t)
  \/ FindDecide(t)
  \/ LedgerAppend(t)
  \/ AppendTest(t)
  \/ AppendNew(t)
  \/ AppendLoad(t)
  \/ AppendList(t)
  \/ AppendLogReturn(t)

AllIdle == \A t \in Threads : th[t].pc = "idle"

\* Concurrent callers: each makes one call (check or guard) with a key
\* string they all share.
ConcKeys == {KeyA, KeyC}
ConcStart(t, k, g) == started[t] = 0 /\ Start(t, k, g)

\* Spec: NumThreads callers run Guardian.check / Guardian.guard concurrently,
\* interleaved at every access to the shared store and ledger.
Next ==
  \/ \E t \in Threads, k \in ConcKeys, g \in BOOLEAN : ConcStart(t, k, g)
  \/ \E t \in Threads : Step(t)

Spec == Init /\ [][Next]_vars

\* SpecSeq: one caller makes up to MaxCalls calls of Guardian.check one after
\* the other; between calls another writer appends to the ledger and the
\* ledger is replayed by verify_determinism; time passes between any two
\* operations and between the two replays.
Quiet == AllIdle /\ verify.pc = "idle"
SeqStart(k) == Quiet /\ started[1] < MaxCalls /\ Start(1, k, FALSE)
SeqTick == AllIdle /\ Tick
SeqOther == Quiet /\ AppendOther
SeqVerifyFirst == AllIdle /\ VerifyFirst

NextSeq ==
  \/ \E k \in KeyObjs : SeqStart(k)
  \/ Step(1)
  \/ SeqTick
  \/ SeqOther
  \/ SeqVerifyFirst
  \/ VerifySecond
  \/ VerifyReturn

SpecSeq == Init /\ [][NextSeq]_vars

\* SpecWorm: appends to the WORM ledger, then at most one in-place change of
\* a stored entry.
NextWorm ==
  \/ \E ty \in AppendTypes, c \in Contents, w \in WrittenAts, p \in Policies :
       WormAppend(ty, c, w, p)
  \/ \E k \in 1..MaxEntries, f \in EntryFields :
       \E v \in FieldValues(f) : Tamper(k, f, v)

SpecWorm == Init /\ [][NextWorm]_vars

\* SpecEvidence: up to MaxAppends calls of EvidenceLog.append, each with any
\* of the events.
NextEvidence == \E event \in EvidenceEvents : EvAppend(event)

SpecEvidence == Init /\ [][NextEvidence]_vars

\* SpecIngest: up to MaxIngests calls of ingest_raw_observation in one
\* process, each with the stores of one of the NumStores pairs.
NextIngest == \E s \in Stores, in \in IngestInputs : Ingest(s, in)

SpecIngest == Init /\ [][NextIngest]_vars

\* SpecStores: up to MaxStoreOps direct appends to the link store, the
\* causality store, an ingest record store and the idempotency store.
NextStores ==
  \/ \E link \in Links : LinkStoreAppend(link)
  \/ \E attribution \in Attributions : CausalityStoreAppend(attribution)
  \/ \E record \in IngestRecords : IngestStoreAppend(record)
  \/ \E record \in IdempotencyRecords : IdempotencyStoreAppend(record)

SpecStores == Init /\ [][NextStores]_vars

\* SpecDecider: up to MaxDecides turns of a caller of IdentityDecider.decide
\* who registers each accepted event under its key.
NextDecider ==
  \E idempotency_key \in {"v1.0.0:k1", "v1.0.0:k2"}, event \in DeciderEvents :
    DecideCall(idempotency_key, event)

SpecDecider == Init /\ [][NextDecider]_vars

\* SpecLineage: calls of LineageValidator.validate_append_only and
\* validate_no_cycles with lists of at most MaxLinks links: a link, the same
\* link with other evidence, and a link of another type and target.
\* all_events is left out, empty, a map of other events, or a map that
\* holds the event itself.
NextLineage ==
  LET Link(type, target_event_id, evidence) ==
        [type |-> type, target_event_id |-> target_event_id,
         evidence |-> evidence, version |-> "1.0.0"]
      LineageLinks == {Link("DERIVES_FROM", "e1", "ev1"),
                       Link("DERIVES_FROM", "e1", "ev2"),
                       Link("REFUND_OF", "e2", "ev1")}
      LinkLists == UNION {[1..n -> LineageLinks] : n \in 0..MaxLinks}
      AllEvents == {None, Some(<<>>), Some(Put(<<>>, "e2", <<>>)),
                    Some(Put(Put(<<>>, "e1", <<>>), "e3", <<>>))}
  IN  \/ \E previous_links \in LinkLists, current_links \in LinkLists :
           ValidateAppendOnly(previous_links, current_links)
      \/ \E event_id \in {"e1", "e3"}, lineage_links \in LinkLists,
            all_events \in AllEvents :
           ValidateNoCycles(event_id, lineage_links, all_events)

SpecLineage == Init /\ [][NextLineage]_vars

\* SpecRegistries: up to MaxRegistryOps operations on one rule registry, one
\* diff store and one version registry: registrations of two rules of one
\* signature, normalizations of ingest records whose payload is stored and
\* maps, is not stored, has no rule, is a list or does not parse, and
\* registrations and resolutions of versions at the clock readings.
NextRegistries ==
  LET Rule(rule_version, raw_path) ==
        [rule_id |-> "bank_json", rule_version |-> rule_version,
         normalizer_version |-> "1.0.0",
         input_signature |-> [source_system |-> "bank", raw_format |-> "json",
                              schema_hint |-> "default"],
         mapping |-> << [raw_path |-> raw_path, canonical_path |-> <<"amount">>],
                        [raw_path |-> <<"currency">>, canonical_path |-> <<"currency">>] >>]
      Stored == {PayloadA, PayloadList, PayloadJunk}
      raw_store == [h \in {sha256_hex(b) : b \in Stored} |-> <<h[2], "json">>]
      Record(raw_bytes, source_system) ==
        [raw_pointer |-> <<"raw:", sha256_hex(raw_bytes)>>,
         source_system |-> source_system, raw_format |-> "json", event_id |-> "evt-1"]
      Records == {Record(PayloadA, "bank"), Record(PayloadA, "no_rule_sys"),
                  Record(PayloadList, "bank"), Record(PayloadJunk, "bank"),
                  Record(<<>>, "bank")}
  IN  \/ \E rule \in {Rule("1.0.0", <<"amount">>), Rule("2.0.0", <<"total">>)} :
           RegisterRule(rule)
      \/ \E ingest_record \in Records : Normalize(ingest_record, raw_store)
      \/ \E version \in {"1.0.0", "2.0.0"}, effective_at \in 0..MaxClock :
           RegisterVersion("normalizer", version, effective_at)
      \/ \E timestamp \in 0..MaxClock : Resolve("normalizer", timestamp)

SpecRegistries == Init /\ [][NextRegistries]_vars

\* SpecPersist: up to MaxPersists calls of CorrelationEngine.persist_links on
\* one link store, each with a list of at most MaxLinks links.
NextPersist ==
  \E link_list \in UNION {[1..n -> Links] : n \in 0..MaxLinks} :
    PersistLinks(link_list)

SpecPersist == Init /\ [][NextPersist]_vars

\* SpecMoneyState: one call of evaluate on a machine built with the declared
\* transitions, with the declared transitions that require some evidence, or
\* with none, for up to MaxEvents events and at most one link.
NextMoneyState ==
  LET EventTypes == {"payment_initiated", "authorization_confirmed",
                     "authorization_denied", "processing_started",
                     "settlement_confirmed", "processing_failed",
                     "settlement_rejected", "refund_requested",
                     "refund_confirmed", "timeout_exceeded", "fee_charged"}
      Events == {[event_type |-> t] : t \in EventTypes}
      Machines == {list_transitions,
                   SelectSeq(list_transitions, LAMBDA t : t.required_evidence # {}),
                   <<>>}
  IN  \E transitions \in Machines,
         canonical_events \in UNION {[1..n -> Events] : n \in 0..MaxEvents},
         correlation_links \in {<<>>, <<[link_type |-> "SEQUENCE"]>>} :
        EvaluateFlow(transitions, canonical_events, correlation_links)

SpecMoneyState == Init /\ [][NextMoneyState]_vars

\* SpecCausality: one call of attribute for a discrepancy with or without a
\* discrepancy_id, with up to MaxRules rules each of which returns nothing,
\* returns one attribution, returns two, or raises.
NextCausality ==
  LET A(name, cause_type, confidence_level) ==
        [causality_id |-> <<"cause-", name>>, discrepancy_id |-> "disc-001",
         cause_type |-> cause_type, confidence_level |-> confidence_level,
         supporting_rules |-> <<"rule-1">>, explanation |-> "explained",
         attributed_at |-> "", model_version |-> ""]
      Outcomes == {Some(<<>>), Some(<<A("a", "SOURCE_DELAY", 8)>>),
                   Some(<<A("b", "SOURCE_DELAY", 9), A("c", "NORMALIZATION_LOSS", 5)>>),
                   None}
  IN  \E discrepancy \in {[discrepancy_id |-> "disc-001"], <<>>},
         causal_rules \in UNION {[1..n -> Outcomes] : n \in 0..MaxRules} :
        Attribute(discrepancy, causal_rules, "2026-01-25T10:00:00Z", "1.0.0")

SpecCausality == Init /\ [][NextCausality]_vars

\* SpecAlerts: up to MaxWindows windows in turn, the aggregate of each at any
\* level (and one at a value that is no level), with its drivers or, having
\* none, with its risk profile; alerts are raised when the window ends.
NextAlerts ==
  LET n == Len(alert_calls) + 1
      Aggregate(level, drivers) ==
        [aggregate_id |-> <<"AGG_", n>>, overall_risk_level |-> level,
         drivers |-> drivers,
         risk_profile |-> <<[risk_signal_id |-> "sig-1", severity_level |-> level]>>]
  IN  \E level \in {"LOW", "MEDIUM", "HIGH", "CRITICAL", "UNKNOWN"},
         drivers \in {<<>>, <<"sig-1">>} :
        Build(Aggregate(level, drivers), "1.0.0", n)

SpecAlerts == Init /\ [][NextAlerts]_vars

\* SpecChanges: up to MaxChanges change declarations of any change type and
\* compatibility, effective at one of two times, and up to MaxChanges change
\* events built from the declarations made.
NextChanges ==
  \/ \E change_type \in {"Patch", "Minor", "Major"},
        compatibility \in {"backward-compatible", "forward-compatible", "breaking"},
        effective_at \in {1, 2} :
       Declare(change_type, compatibility, effective_at)
  \/ \E i \in DOMAIN declarations : BuildChangeEvent(declarations[i])

SpecChanges == Init /\ [][NextChanges]_vars

\* SpecAdapters: one adapter registry on which the schema is loaded and
\* contracts are registered for two adapters, in any order, and one call of
\* validate_ingest with a declaration of either adapter, in a supported or an
\* unsupported format, with or without an adapter version, and with none,
\* one or two keys beyond the allowed ones.
NextAdapters ==
  LET Contract(adapter_id, keys) ==
        [k \in keys |->
           IF k = "supported_formats" THEN <<"JSON", "CSV">>
           ELSE IF k = "adapter_id" THEN <<adapter_id>> ELSE <<"1.0.0">>]
      AllKeys == {"adapter_id", "supported_formats", "schema_version", "adapter_version"}
      Declaration(source_system, payload_format, adapter_version, extra) ==
        [k \in {"source_system", "payload_raw", "payload_format", "adapter_version"}
               \cup extra |->
           CASE k = "source_system" -> source_system
             [] k = "payload_format" -> payload_format
             [] k = "adapter_version" -> adapter_version
             [] k = "payload_raw" -> "{}"
             [] OTHER -> "INJECTED"]
      Extras == {{}, {"event_type"}, {"state"}, {"discrepancy"}, {"cause"},
                 {"state", "event_type"}, {"custom_business_rule"}}
  IN  \/ LoadSchema([required |-> {"adapter_id", "supported_formats"}])
      \/ \E adapter_id \in {"bank_a", "bank_b"},
            keys \in {AllKeys, AllKeys \ {"supported_formats"}} :
           RegisterAdapter(adapter_id, Contract(adapter_id, keys))
      \/ \E adapter_id \in {"bank_a", "bank_b"}, source_system \in {"bank_a", "bank_b"},
            payload_format \in {"JSON", "XML"}, adapter_version \in {"1.0.0", ""},
            extra \in Extras :
           ValidateIngest(adapter_id,
                          Declaration(source_system, payload_format, adapter_version, extra))

SpecAdapters == Init /\ [][NextAdapters]_vars

\* SpecConformance: one conformance suite, constructed for a contract with or
\* without its adapter_version, on which up to MaxRuns test groups are run in
\* any order, any group more than once, with sample declarations that are
\* clean or not and with emit functions of every kind, and whose report is
\* generated at any time.
NextConformance ==
  LET Contract(keys) ==
        [k \in keys |-> IF k = "supported_formats" THEN <<"JSON", "CSV">>
                        ELSE IF k = "adapter_id" THEN <<"bank_a">> ELSE <<"1.0.0">>]
      AllKeys == {"adapter_id", "supported_formats", "schema_version", "adapter_version"}
      Sample(extra) ==
        [k \in {"source_system", "payload_raw"} \cup extra |-> <<"bank_a">>]
      Fields == {"event_type", "state", "discrepancy", "cause"}
  IN  \/ \E keys \in {AllKeys, AllKeys \ {"adapter_version"}},
            prohibited_order \in {o \in [1..4 -> Fields] : {o[i] : i \in 1..4} = Fields} :
           NewSuite("bank_a", Contract(keys), prohibited_order)
      \/ \E sample_declarations \in {<<Sample({})>>, <<Sample({}), Sample({"state"})>>} :
           RunContractTests([required |-> {"adapter_id", "supported_formats"}],
                            sample_declarations)
      \/ \E kind \in {"faithful", "mutating", "counting", "raising"} :
           RunBehavioralTests(kind, <<"payload">>)
      \/ \E kind \in {"faithful", "passthrough", "raising"} : RunNegativeTests(kind)
      \/ GenerateReport

SpecConformance == Init /\ [][NextConformance]_vars

\* ------------------------------------------------------------------ claims
TotalStarted == LET Sum[n \in 0..NumThreads] == IF n = 0 THEN 0 ELSE Sum[n - 1] + started[n]
                IN Sum[NumThreads]

CountDecision(d) == Cardinality({i \in 1..Len(hist) : hist[i].decision = d})

\* The earlier finished calls that passed the same key string as call i.
EarlierSameKey(i) == {j \in 1..(i - 1) : hist[j].key.key = hist[i].key.key}
FirstOf(S) == CHOOSE j \in S : \A l \in S : j <= l

SameKeyObject == \A i \in 1..Len(hist) : hist[i].key = hist[1].key

\* C1: when all NumThreads concurrent callers passed the same idempotency key
\* to a store that did not hold it, exactly one of them got ACCEPT_FIRST and
\* all the others REJECT_DUPLICATE, whatever the interleaving.
C1_ExactlyOneAcceptFirst ==
  (AllIdle /\ Len(hist) = NumThreads /\ SameKeyObject)
    => /\ CountDecision(ACCEPT_FIRST) = 1
       /\ CountDecision(REJECT_DUPLICATE) = NumThreads - 1

\* C2: when all NumThreads concurrent callers guarded the operation with the
\* same key, the operation ran exactly once, and a caller whose decision was
\* not ACCEPT_FIRST got no result.
C2_GuardedOperationRunsOnce ==
  (AllIdle /\ Len(hist) = NumThreads /\ SameKeyObject
     /\ \A i \in 1..Len(hist) : hist[i].guard)
    => /\ execution_count = 1
       /\ \A i \in 1..Len(hist) :
            hist[i].decision # ACCEPT_FIRST => hist[i].result = None

\* C3: once the calls made have all returned, the store holds exactly one
\* record per call (whatever its decision), each naming one evidence entry
\* that is in the ledger, and the ledger holds at least one entry per call.
C3_EveryCallRecorded ==
  AllIdle =>
    /\ Len(append_log) = TotalStarted
    /\ Len(entries) >= TotalStarted
    /\ \A i \in 1..Len(append_log) :
         /\ append_log[i].decision = hist[i].decision
         /\ Len(append_log[i].evidence_refs) = 1
         /\ \E e \in 1..Len(entries) :
              /\ entries[e].reference = append_log[i].evidence_refs[1]
              /\ <<entries[e].reference, entries[e]>> \in entry_map

C3_Witness ==
  /\ AllIdle
  /\ Len(append_log) = NumThreads
  /\ CountDecision(FLAG_AMBIGUOUS) >= 1
  /\ CountDecision(ACCEPT_FIRST) >= 1

\* C4: in a sequence of calls made one after the other, the first call for a
\* key string is ACCEPT_FIRST, no later call for it is ACCEPT_FIRST, and a
\* later call with the components of the first is REJECT_DUPLICATE.
C4_FirstAcceptedLaterRejected ==
  \A i \in 1..Len(hist) :
    LET earlier == EarlierSameKey(i)
    IN /\ earlier = {} => hist[i].decision = ACCEPT_FIRST
       /\ earlier # {} => hist[i].decision # ACCEPT_FIRST
       /\ (earlier # {} /\ FingerprintFields(hist[i].key)
                            = FingerprintFields(hist[FirstOf(earlier)].key))
            => hist[i].decision = REJECT_DUPLICATE

C4_Witness ==
  /\ Len(hist) = 3
  /\ hist[1].key = KeyA /\ hist[2].key = KeyC /\ hist[3].key = KeyA
  /\ hist[1].decision = ACCEPT_FIRST
  /\ hist[2].decision = FLAG_AMBIGUOUS
  /\ hist[3].decision = REJECT_DUPLICATE

\* C5: a call whose key string is already in the store, with components
\* (scope, principal, subject, payload hash, version) that differ from those
\* recorded for it, is FLAG_AMBIGUOUS.
C5_DifferentComponentsFlagged ==
  \A i \in 1..Len(hist) :
    LET earlier == EarlierSameKey(i)
    IN (earlier # {} /\ FingerprintFields(hist[i].key)
                         # FingerprintFields(hist[FirstOf(earlier)].key))
         => hist[i].decision = FLAG_AMBIGUOUS

\* C6: the two replays verify_determinism makes of one ledger are equal,
\* record for record and field for field, and it reports so.
C6_ReplayTwiceIdentical ==
  /\ verify.pc = "compare" => verify.first_replay = verify.second_replay
  /\ deterministic # Some(FALSE)

C6_Witness ==
  /\ verify.pc = "compare"
  /\ Len(verify.second_replay) >= 2
  /\ clock > verify.second_replay[Len(verify.second_replay)].decided_at
  /\ others >= 1

\* C7: a replay of the ledger after a sequence of calls has one record per
\* call, in the order of the calls, each with the key string and the decision
\* of its call.
C7_ReplayReproducesCalls ==
  verify.pc # "idle" =>
    /\ Len(verify.first_replay) = Len(hist)
    /\ \A i \in 1..Len(hist) :
         /\ verify.first_replay[i].idempotency_key = hist[i].key.key
         /\ verify.first_replay[i].decision = hist[i].decision

C7_Witness ==
  /\ verify.pc = "second"
  /\ Len(hist) = 3
  /\ others >= 1
  /\ hist[1].key = KeyD /\ hist[2].key = KeyA /\ hist[3].key = KeyC
  /\ verify.first_replay[3].decision = FLAG_AMBIGUOUS

\* C8: after any sequence of appends (none included) and no in-place change,
\* verify_chain returns (True, None).
C8_AppendedChainVerifies ==
  tampered = None => verify_chain = <<TRUE, None>>

C8_Witness ==
  /\ tampered = None
  /\ Len(worm_entries) = 3
  /\ worm_entries[1].entry_type # worm_entries[2].entry_type
  /\ worm_entries[2].content # worm_entries[3].content

\* C9: after one field of one stored entry was changed (whichever field),
\* verify_chain returns False with a reason naming that entry's sequence
\* number (the one it was appended with or, if that is the field changed,
\* the one it now carries).
C9_AnyChangeDetected ==
  tampered # None =>
    /\ verify_chain[1] = FALSE
    /\ verify_chain[2] # None
    /\ verify_chain[2][1][2] \in {tampered[1].sequence_number,
                                 worm_entries[tampered[1].at].sequence_number}

\* C10: after the content of the entry at sequence k was changed in place,
\* no hash touched, verify_chain returns
\* (False, "Content hash mismatch at sequence k").
C10_ContentChangeReported ==
  (tampered # None /\ tampered[1].field = "content")
    => verify_chain = <<FALSE, Some(<<"Content hash mismatch at sequence ", tampered[1].at>>)>>

C10_Witness ==
  /\ Len(worm_entries) = 3
  /\ tampered # None /\ tampered[1].field = "content" /\ tampered[1].at = 2
  /\ verify_chain = <<FALSE, Some(<<"Content hash mismatch at sequence ", 2>>)>>

\* The instant a timestamp denotes, in tenths of a second after the shared
\* date-and-minute prefix.
DigitValue(c) == CASE c = "0" -> 0 [] c = "1" -> 1 [] c = "5" -> 5
Instant(produced_at) ==
  DigitValue(produced_at[2]) * 10
    + (IF produced_at[3] = "." THEN DigitValue(produced_at[4]) ELSE 0)

\* The calls of EvidenceLog.append among the first n that returned.
Returned(n) == {m \in 1..n : ev_calls[m].returned # None}

\* The event ids logged when the log held n entries.
LoggedIds(n) == {ev_events[j][2].event_id : j \in 1..n}

\* C11: in the evidence log, the instant of each entry's produced_at is not
\* before the instant of the produced_at of the entry appended before it.
C11_ProducedAtNonDecreasing ==
  \A i \in 1..(Len(ev_events) - 1) :
    Instant(ev_events[i + 1][2].produced_at) >= Instant(ev_events[i][2].produced_at)

\* C12: every caused_by id of a logged event is the event_id of an entry
\* with a strictly smaller sequence number, and a call of append whose event
\* names an id not logged before the call (its own id included) raised.
C12_CausesPointBackward ==
  /\ \A i \in 1..Len(ev_events) :
       \A c \in 1..Len(ev_events[i][2].caused_by) :
         \E j \in 1..Len(ev_events) :
           /\ ev_events[j][1] < ev_events[i][1]
           /\ ev_events[j][2].event_id = ev_events[i][2].caused_by[c]
  /\ \A n \in 1..Len(ev_calls) :
       (\E c \in 1..Len(ev_calls[n].event.caused_by) :
          ev_calls[n].event.caused_by[c] \notin LoggedIds(ev_calls[n].log_len))
         => ev_calls[n].returned = None /\ ev_calls[n].raised # None

C12_Witness ==
  /\ Len(ev_calls) = 3
  /\ ev_calls[1].returned = Some(1) /\ ev_calls[1].event.event_id = "e1"
  /\ ev_calls[2].event.event_id = "e2" /\ ev_calls[2].event.caused_by = <<"e1", "e2">>
  /\ ev_calls[2].raised = Some(<<"caused_by references non-existent event_id: ", "e2">>)
  /\ ev_calls[3].event.caused_by = <<"e1">> /\ ev_calls[3].returned = Some(2)

\* C13: the events appended carry the sequence numbers 1..k in append
\* order, the calls that returned got 1..k in call order, and a call that
\* raised left the next sequence number as it was.
C13_SequenceDense ==
  /\ Len(ev_events) = Cardinality(Returned(Len(ev_calls)))
  /\ \A i \in 1..Len(ev_events) : ev_events[i][1] = i
  /\ ev_next_sequence = Len(ev_events) + 1
  /\ \A n \in 1..Len(ev_calls) :
       ev_calls[n].returned # None
         => ev_calls[n].returned[1] = Cardinality(Returned(n))

C13_Witness ==
  /\ Len(ev_calls) = 3
  /\ ev_calls[1].returned = Some(1)
  /\ ev_calls[2].raised # None
  /\ ev_calls[3].returned = Some(2)
  /\ ev_events[2][1] = 2

\* C14: no two entries of the evidence log carry the same event_id.
C14_EventIdUnique ==
  \A i, j \in 1..Len(ev_events) :
    i # j => ev_events[i][2].event_id # ev_events[j][2].event_id

\* The calls of ingest_raw_observation made with the stores of pair s.
CallsOn(s) == {n \in 1..Len(ing_calls) : ing_calls[n].store = s}

\* C15: every call of ingest_raw_observation, whatever its decision, added
\* exactly one record to the ingest record store it was given: the record it
\* returned, at the end of the store.
C15_OneRecordPerCall ==
  /\ \A s \in Stores : Len(ing_records[s]) = Cardinality(CallsOn(s))
  /\ \A n \in 1..Len(ing_calls) :
       LET c == ing_calls[n]
       IN /\ c.count_before = Cardinality({m \in CallsOn(c.store) : m < n})
          /\ ing_records[c.store][c.count_before + 1] = c.returned

C15_Witness ==
  /\ Len(ing_calls) = 3
  /\ CallsOn(1) = {1, 2, 3}
  /\ ing_records[1][1].idempotency_decision = "ACCEPT"
  /\ ing_records[1][2].idempotency_decision = "REJECT_DUPLICATE"
  /\ ing_records[1][3].idempotency_decision = "FLAG_AMBIGUOUS"

\* C16: when all the calls made with a pair of stores passed the same
\* parseable bytes and the same metadata, the first of their records is
\* ACCEPT and the others REJECT_DUPLICATE, all carry one event_id, and the
\* raw payload store holds one payload.
C16_RetryStorm ==
  \A s \in Stores :
    (/\ CallsOn(s) # {}
     /\ \A n \in CallsOn(s) :
          /\ ing_calls[n].input.raw_bytes = PayloadA
          /\ ing_calls[n].input.raw_format = "json"
          /\ \A m \in CallsOn(s) : ing_calls[m].input = ing_calls[n].input)
      => /\ ing_records[s][1].idempotency_decision = "ACCEPT"
         /\ \A i \in 2..Len(ing_records[s]) :
              /\ ing_records[s][i].idempotency_decision = "REJECT_DUPLICATE"
              /\ ing_records[s][i].event_id = ing_records[s][1].event_id
         /\ Cardinality(DOMAIN raw_payloads[s]) = 1

\* The number of records a store holds (its count, its len, or the length
\* of what iter_all yields).
StoreSize(store) ==
  CASE store = "link" -> Len(links)
    [] store = "causality" -> Cardinality(DOMAIN attributions)
    [] store = "ingest" -> Len(ing_records[1])
    [] store = "idempotency" -> Len(append_log)

\* The record is among the elements of the sequence.
Holds(seq, record) == \E i \in 1..Len(seq) : seq[i] = record

\* The record a direct call stored can be read back as it was stored, by
\* the store's full read and by its keyed reads.
Retrievable(c) ==
  CASE c.store = "link" -> Holds(links, c.record)
    [] c.store = "causality" ->
         /\ Get(attributions, c.record.causality_id, None) = c.record
         /\ Holds(list_by_discrepancy(c.record.discrepancy_id), c.record)
    [] c.store = "ingest" ->
         /\ Holds(ing_records[1], c.record)
         /\ Holds(scan_by_raw_payload_hash(1, c.record.raw_payload_hash), c.record)
    [] c.store = "idempotency" ->
         /\ Holds(append_log, c.record)
         /\ Holds(lists[records_by_key[c.record.idempotency_key]], c.record)

\* C17: a direct append of a record whose id the store already held raised
\* an error and left the store's count as it was, in every store.
C17_DuplicateIdRejected ==
  \A n \in 1..Len(store_calls) :
    store_calls[n].existed
      => /\ store_calls[n].raised # None
         /\ store_calls[n].size_after = store_calls[n].size_before

\* C18: no append, accepted or rejected, lowered the count of its store, no
\* store's count is below what it was after an earlier call, and every
\* record an accepted append stored can still be read back unchanged.
C18_AppendOnlyMonotonic ==
  \A n \in 1..Len(store_calls) :
    LET c == store_calls[n]
    IN /\ c.size_after >= c.size_before
       /\ StoreSize(c.store) >= c.size_after
       /\ c.raised = None => c.size_after = c.size_before + 1 /\ Retrievable(c)
       /\ c.raised # None => c.size_after = c.size_before

C18_Witness ==
  /\ Len(store_calls) = 3
  /\ store_calls[1].store = "causality" /\ store_calls[1].raised = None
  /\ store_calls[2].store = "causality" /\ store_calls[2].existed
  /\ store_calls[2].raised # None
  /\ store_calls[2].record # store_calls[1].record
  /\ store_calls[3].store = "idempotency" /\ store_calls[3].raised = None

\* C19: when every call of decide so far passed one same (key, event),
\* starting from an empty map to which the event is added after the first
\* ACCEPT, the first decision is ACCEPT and all the others are
\* REJECT_DUPLICATE.
C19_RetriesOneAccept ==
  (\A n \in 1..Len(decide_calls) :
     /\ decide_calls[n].idempotency_key = decide_calls[1].idempotency_key
     /\ decide_calls[n].event = decide_calls[1].event)
    => \A n \in 1..Len(decide_calls) :
         decide_calls[n].match.decision =
           IF n = 1 THEN "ACCEPT" ELSE "REJECT_DUPLICATE"

\* The event registered under the key differs from the event passed in the
\* value of a critical field.
DiffersCritically(event, existing_event) ==
  \E field \in {"amount", "currency", "direction", "event_type", "source_system"} :
    Get(event, field, None) # Get(existing_event, field, None)

\* C20: a call of decide whose key is registered with an event that differs
\* in a critical field, or whose key is new while the source_event_id of its
\* event is that of an event registered under another key, is FLAG_AMBIGUOUS.
C20_NoSilentAccept ==
  \A n \in 1..Len(decide_calls) :
    LET c == decide_calls[n]
        key_known == \E i \in 1..Len(c.existing) : c.existing[i][1] = c.idempotency_key
    IN (\/ \E i \in 1..Len(c.existing) :
             /\ c.existing[i][1] = c.idempotency_key
             /\ DiffersCritically(c.event, c.existing[i][2])
        \/ /\ ~key_known
           /\ "source_event_id" \in DOMAIN c.event
           /\ \E i \in 1..Len(c.existing) :
                /\ "source_event_id" \in DOMAIN c.existing[i][2]
                /\ c.existing[i][2].source_event_id = c.event.source_event_id)
         => c.match.decision = "FLAG_AMBIGUOUS"

\* The orders a list can be given in.
Orders(link_list) ==
  {[i \in DOMAIN link_list |-> link_list[p[i]]] : p \in Permutations(DOMAIN link_list)}

\* A link of previous_links is gone from, or altered in, current_links: no
\* current link has its (type, target_event_id), or one that has it differs
\* from it in content.
DeletedOrModified(previous_links, current_links) ==
  \E i \in DOMAIN previous_links :
    LET prev == previous_links[i]
        Same(j) == /\ current_links[j].type = prev.type
                   /\ current_links[j].target_event_id = prev.target_event_id
    IN  \/ \A j \in DOMAIN current_links : ~Same(j)
        \/ \E j \in DOMAIN current_links : Same(j) /\ current_links[j] # prev

\* C21: validate_append_only rejects whenever a link of previous_links,
\* identified by (type, target_event_id), is absent from current_links or
\* present there with modified content, and its verdict is the same for every
\* order of the links in either list.
C21_AppendOnlyOrderFree ==
  lin_call.op = "validate_append_only" =>
    /\ DeletedOrModified(lin_call.previous_links, lin_call.lineage_links)
         => ~lin_call.result.valid
    /\ \A p \in Orders(lin_call.previous_links), c \in Orders(lin_call.lineage_links) :
         validate_append_only(p, c).valid = lin_call.result.valid

\* C22: validate_no_cycles rejects every call whose lineage_links hold a link
\* that targets the event's own event_id, whatever all_events is.
C22_SelfLinkRejected ==
  (/\ lin_call.op = "validate_no_cycles"
   /\ \E i \in DOMAIN lin_call.lineage_links :
        Some(lin_call.lineage_links[i].target_event_id) = lin_call.event_id)
    => ~lin_call.result.valid

\* The calls of normalize_ingest_record made so far.
Normalizations == {n \in DOMAIN reg_calls : reg_calls[n].op = "normalize_ingest_record"}

\* C23: every call of normalize_ingest_record returns a result whose
\* diff_reference names a diff document that the call added to the diff
\* store, the only one it added, and the store keeps it.
C23_DiffAlwaysWritten ==
  \A n \in Normalizations :
    LET call == reg_calls[n]
        before == call.diffs_before
        after == call.returned.diffs
    IN  /\ call.returned.raised = None
        /\ call.returned.normalization_result # None
        /\ LET diff_reference == call.returned.normalization_result[1].diff_reference
           IN  /\ diff_reference \notin DOMAIN before
               /\ DOMAIN after = DOMAIN before \cup {diff_reference}
               /\ \A r \in DOMAIN before : after[r] = before[r]
               /\ diff_reference \in DOMAIN diffs
               /\ diffs[diff_reference] = after[diff_reference]
               /\ diffs[diff_reference].raw_pointer = call.input.raw_pointer

\* A normalization that produced a canonical event and one that failed (no
\* rule registered, payload not stored, or payload not parseable) have run.
C23_Witness ==
  /\ \E n \in Normalizations : reg_calls[n].returned.canonical_event # None
  /\ \E n \in Normalizations :
       /\ reg_calls[n].returned.canonical_event = None
       /\ reg_calls[n].returned.normalization_result # None

\* C24: once a lookup has been answered, the registries keep answering it the
\* same: the rule a normalization applied is still the rule registered for the
\* record's triple, and a (component, timestamp) pair that resolved to a
\* version still resolves to it.
C24_RegistriesImmutable ==
  \A n \in DOMAIN reg_calls :
    LET call == reg_calls[n]
    IN  /\ (call.op = "normalize_ingest_record" /\ call.returned.canonical_event # None)
             => LET key == <<call.input.source_system, call.input.raw_format, "default">>
                IN  /\ key \in DOMAIN rules
                    /\ <<[rule_id |-> rules[key].rule_id,
                          rule_version |-> rules[key].rule_version,
                          normalizer_version |-> rules[key].normalizer_version]>>
                         = call.returned.normalization_result[1].applied_rules
        /\ (call.op = "VersionResolver.resolve" /\ call.returned # None)
             => resolve(versions, call.input.component, call.input.timestamp)
                  = call.returned

\* The first sequence is an initial part of the second.
IsPrefix(s, t) == Len(s) <= Len(t) /\ \A i \in 1..Len(s) : s[i] = t[i]

\* C25: a call of persist_links that names a link whose link_id was stored
\* before the call raised an error, and every call, raising or not, left the
\* links stored before it in place and unchanged, as they still are.
C25_PersistAdditive ==
  \A n \in 1..Len(persist_calls) :
    LET c == persist_calls[n]
    IN  /\ (\E i \in DOMAIN c.links, j \in DOMAIN c.stored_before :
              c.links[i].link_id = c.stored_before[j].link_id)
             => c.raised # None
        /\ IsPrefix(c.stored_before, c.stored_after)
        /\ IsPrefix(c.stored_after, links)
        /\ link_ids = {links[i].link_id : i \in DOMAIN links}

\* A call persisted a link, and a later call that named its link_id with
\* another score raised.
C25_Witness ==
  \E m, n \in 1..Len(persist_calls) :
    /\ m < n
    /\ persist_calls[m].raised = None
    /\ persist_calls[n].raised # None
    /\ \E i \in DOMAIN persist_calls[m].links, j \in DOMAIN persist_calls[n].links :
         /\ persist_calls[m].links[i].link_id = persist_calls[n].links[j].link_id
         /\ persist_calls[m].links[i] # persist_calls[n].links[j]

\* What the call of evaluate returned.
Evaluation == ms_call.returned[1]

\* C26: when the evidence of the flow holds SETTLEMENT_CONFIRMATION together
\* with PROCESSING_FAILURE or SETTLEMENT_REJECTION, evaluate returns state
\* AMBIGUOUS with confidence 0.5, whatever else the evidence holds and
\* whatever the machine's transitions.
C26_ContradictionAmbiguous ==
  (/\ ms_call.made
   /\ "SETTLEMENT_CONFIRMATION" \in ms_call.available_evidence
   /\ {"PROCESSING_FAILURE", "SETTLEMENT_REJECTION"} \cap ms_call.available_evidence # {})
    => Evaluation.state = "AMBIGUOUS" /\ Evaluation.confidence_level = 5

\* A flow with a settlement confirmation, a settlement rejection and no
\* processing failure, and with other evidence besides, was evaluated.
C26_Witness ==
  /\ ms_call.made
  /\ {"SETTLEMENT_CONFIRMATION", "SETTLEMENT_REJECTION"} \subseteq ms_call.available_evidence
  /\ "PROCESSING_FAILURE" \notin ms_call.available_evidence
  /\ Cardinality(ms_call.available_evidence) > 2
  /\ Evaluation.state = "AMBIGUOUS"

\* The states a flow ends in.
TerminalStates == {"SETTLED", "REFUNDED", "REVERSED", "FAILED", "EXPIRED"}

\* The terminal states that the possible transitions lead to.
PlausibleTerminal ==
  LET possible == Possible(ms_call.transitions, ms_call.available_evidence)
  IN  {possible[i].to_state : i \in DOMAIN possible} \cap TerminalStates

\* C27: when the transitions whose required evidence is present and whose
\* forbidden evidence is absent lead to more than one terminal state,
\* evaluate returns AMBIGUOUS.
C27_SeveralTerminalAmbiguous ==
  (ms_call.made /\ Cardinality(PlausibleTerminal) > 1)
    => Evaluation.state = "AMBIGUOUS"

\* C28: when no transition of the machine is possible for the evidence and
\* the evidence holds none of the four patterns of the defaults, evaluate
\* returns UNKNOWN with confidence 0.1.
C28_NoRuleUnknown ==
  (/\ ms_call.made
   /\ Possible(ms_call.transitions, ms_call.available_evidence) = <<>>
   /\ ms_call.available_evidence
        \cap {"SETTLEMENT_CONFIRMATION", "PROCESSING_FAILURE",
              "AUTHORIZATION_CONFIRMATION", "INITIATION_SIGNAL"} = {})
    => Evaluation.state = "UNKNOWN" /\ Evaluation.confidence_level = 1

\* A machine that has transitions, none of them possible for the evidence,
\* which is not empty, returned UNKNOWN.
C28_Witness ==
  /\ ms_call.made
  /\ ms_call.transitions # <<>>
  /\ ms_call.available_evidence # {}
  /\ Possible(ms_call.transitions, ms_call.available_evidence) = <<>>
  /\ Evaluation.state = "UNKNOWN"

\* C29: when each of the rules passed to attribute, if any, returns no
\* attribution, attribute returns exactly one attribution, of cause_type
\* UNKNOWN_CAUSE and confidence 0, for the discrepancy.
C29_UnknownCauseFallback ==
  (cs_call.made /\ \A i \in DOMAIN cs_call.rules : cs_call.rules[i] = Some(<<>>))
    => /\ cs_call.raised = None
       /\ Len(cs_call.returned) = 1
       /\ cs_call.returned[1].cause_type = "UNKNOWN_CAUSE"
       /\ cs_call.returned[1].confidence_level = 0
       /\ cs_call.returned[1].discrepancy_id
            = Get(cs_call.discrepancy, "discrepancy_id", "unknown")

\* A call with two rules, both of which returned nothing.
C29_Witness ==
  /\ cs_call.made
  /\ Len(cs_call.rules) = 2
  /\ \A i \in DOMAIN cs_call.rules : cs_call.rules[i] = Some(<<>>)
  /\ Len(cs_call.returned) = 1

\* The alert types of the alerts that the calls of build so far returned, in
\* order.
RECURSIVE AlertTypes(_)
AlertTypes(n) ==
  IF n = 0 THEN <<>>
  ELSE AlertTypes(n - 1) \o
       [i \in DOMAIN alert_calls[n].returned |-> alert_calls[n].returned[i].alert_type]

\* C30: build returns one INSTITUTIONAL_BREACH alert for a CRITICAL
\* aggregate, one RISK_ESCALATION alert for HIGH, one EARLY_WARNING alert for
\* MEDIUM and no alert for LOW; for windows at LOW, MEDIUM, HIGH, CRITICAL in
\* turn the alerts are EARLY_WARNING, RISK_ESCALATION, INSTITUTIONAL_BREACH.
C30_AlertMapping ==
  /\ \A n \in DOMAIN alert_calls :
       LET call == alert_calls[n]
           level == call.aggregate.overall_risk_level
           One(alert_type) ==
             /\ call.raised = None
             /\ Len(call.returned) = 1
             /\ call.returned[1].alert_type = alert_type
             /\ call.returned[1].aggregate_id = call.aggregate.aggregate_id
       IN  /\ level = "CRITICAL" => One("INSTITUTIONAL_BREACH")
           /\ level = "HIGH" => One("RISK_ESCALATION")
           /\ level = "MEDIUM" => One("EARLY_WARNING")
           /\ level = "LOW" => call.raised = None /\ call.returned = <<>>
  /\ [n \in DOMAIN alert_calls |-> alert_calls[n].aggregate.overall_risk_level]
       = <<"LOW", "MEDIUM", "HIGH", "CRITICAL">>
     => AlertTypes(Len(alert_calls))
          = <<"EARLY_WARNING", "RISK_ESCALATION", "INSTITUTIONAL_BREACH">>

\* Four windows at LOW, MEDIUM, HIGH and CRITICAL were built in turn.
C30_Witness ==
  /\ Len(alert_calls) = 4
  /\ [n \in DOMAIN alert_calls |-> alert_calls[n].aggregate.overall_risk_level]
       = <<"LOW", "MEDIUM", "HIGH", "CRITICAL">>
  /\ Len(AlertTypes(4)) = 3

\* The entries registered by the calls of VersionRegistry.register before
\* the n-th operation on the registries.
RegisteredBefore(n) ==
  {reg_calls[m].input : m \in {k \in 1..(n - 1) : reg_calls[k].op = "VersionRegistry.register"}}

\* C31: whatever the order of the registrations, resolve(component, ts)
\* returns a registered entry of the component that is effective at ts and has
\* the greatest effective_at of those, and returns None exactly when no
\* registered entry of the component is effective at ts.
C31_ResolveLatestEffective ==
  \A n \in DOMAIN reg_calls :
    reg_calls[n].op = "VersionResolver.resolve" =>
      LET call == reg_calls[n]
          active == {e \in RegisteredBefore(n) :
                       /\ e.component = call.input.component
                       /\ e.effective_at <= call.input.timestamp}
      IN  /\ call.returned = None <=> active = {}
          /\ call.returned # None =>
               /\ call.returned[1] \in active
               /\ \A e \in active : e.effective_at <= call.returned[1].effective_at

\* A version was registered after one that takes effect later, and a
\* resolution at a time when both are effective returned the later one.
C31_Witness ==
  /\ Len(reg_calls) = 3
  /\ reg_calls[1].op = "VersionRegistry.register"
  /\ reg_calls[2].op = "VersionRegistry.register"
  /\ reg_calls[2].input.effective_at < reg_calls[1].input.effective_at
  /\ reg_calls[3].op = "VersionResolver.resolve"
  /\ reg_calls[3].input.timestamp >= reg_calls[1].input.effective_at
  /\ reg_calls[3].returned = Some(reg_calls[1].input)

\* C32: no ChangeDeclaration constructed and no ChangeEvent payload built has
\* change_type Major with a compatibility other than breaking.
C32_MajorImpliesBreaking ==
  /\ \A i \in DOMAIN declarations :
       declarations[i].change_type = "Major" => declarations[i].compatibility = "breaking"
  /\ \A i \in DOMAIN change_events :
       change_events[i].change_type = "Major" => change_events[i].compatibility = "breaking"

\* C33: validate_ingest raises for every declaration that has one of the keys
\* event_type, state, discrepancy, cause.
C33_ProhibitedFieldsRejected ==
  (/\ ingest_call.made
   /\ DOMAIN ingest_call.declaration \cap {"event_type", "state", "discrepancy", "cause"} # {})
    => ingest_call.raised # None

\* The results that a report lists, of the three groups together.
Details(r) ==
  r.contract_tests.details \o r.behavioral_tests.details \o r.negative_tests.details

\* C34: a report that lists a test with result FAIL, of any group and
\* whatever was run after it, has overall_result FAIL; and a report lists
\* every result the suite had recorded, the suite never dropping one.
C34_AnyFailFailsReport ==
  report # None =>
    /\ (\E i \in DOMAIN Details(report[1]) : Details(report[1])[i].result = "FAIL")
         => report[1].overall_result = "FAIL"
    /\ IsPrefix(report[1].contract_tests.details, suite[1].contract_tests_results)
    /\ IsPrefix(report[1].behavioral_tests.details, suite[1].behavioral_tests_results)
    /\ IsPrefix(report[1].negative_tests.details, suite[1].negative_tests_results)

\* A report with overall_result FAIL, generated after a behavioural run that
\* recorded a FAIL and a later behavioural run that passed, no other group
\* having failed.
C34_Witness ==
  /\ report # None
  /\ report[1].overall_result = "FAIL"
  /\ LET details == report[1].behavioral_tests.details
     IN  /\ Len(details) = 4
         /\ details[1].result = "FAIL"
         /\ details[3].result = "PASS" /\ details[4].result = "PASS"
  /\ report[1].contract_tests.failed = 0
  /\ report[1].negative_tests.failed = 0

\* C35: a report has overall_result PASS only if contract, behavioural and
\* negative tests have each been run and recorded results, none of them FAIL.
C35_PassNeedsAllGroups ==
  (report # None /\ report[1].overall_result = "PASS") =>
    /\ report[1].contract_tests.details # <<>>
    /\ report[1].behavioral_tests.details # <<>>
    /\ report[1].negative_tests.details # <<>>
    /\ \A i \in DOMAIN Details(report[1]) : Details(report[1])[i].result # "FAIL"

\* C36: a call of EvidenceLog.append that raised, for a time reversal or for
\* an unknown caused_by id, left the stored entries, the next sequence
\* number, the last produced_at and the set of known event ids as they were.
C36_RejectedAppendNoChange ==
  [][(/\ Len(ev_calls') = Len(ev_calls) + 1
      /\ ev_calls'[Len(ev_calls')].raised # None)
       => UNCHANGED <<ev_events, ev_next_sequence, ev_last_produced_at, ev_event_ids>>]_vars

\* After one event was logged, an append was rejected for a time reversal and
\* another for an unknown caused_by id, and the log still holds the one event.
C36_Witness ==
  /\ Len(ev_calls) = 3
  /\ ev_calls[1].returned = Some(1)
  /\ ev_calls[2].raised # None /\ ev_calls[2].raised[1][1] = "produced_at "
  /\ ev_calls[3].raised = Some(<<"caused_by references non-existent event_id: ", "e99">>)
  /\ Len(ev_events) = 1 /\ ev_next_sequence = 2
  /\ ev_last_produced_at = Some(ev_calls[1].event.produced_at)
  /\ ev_event_ids = {ev_calls[1].event.event_id}

\* C37: a call of persist_links that raised, one of its links having a
\* link_id stored before the call, added none of its links to the link store.
C37_PersistAllOrNothing ==
  \A n \in 1..Len(persist_calls) :
    LET c == persist_calls[n]
    IN  (/\ c.raised # None
         /\ \E i \in DOMAIN c.links, j \in DOMAIN c.stored_before :
              c.links[i].link_id = c.stored_before[j].link_id)
          => c.stored_after = c.stored_before

\* C38: in every ingest record store, a record with decision REJECT_DUPLICATE
\* comes after a record of that store with decision ACCEPT and the same
\* event_id, whatever calls were made with other stores in between.
C38_DuplicateOfSameStore ==
  \A s \in Stores :
    \A i \in 1..Len(ing_records[s]) :
      ing_records[s][i].idempotency_decision = "REJECT_DUPLICATE"
        => \E j \in 1..(i - 1) :
             /\ ing_records[s][j].idempotency_decision = "ACCEPT"
             /\ ing_records[s][j].event_id = ing_records[s][i].event_id

\* C39: the machine of the declared transitions returns AMBIGUOUS only for
\* evidence that is contradictory or makes more than one terminal state
\* plausible; for a settlement confirmation alone it returns SETTLED and for no
\* evidence UNKNOWN.
C39_DefaultAmbiguousJustified ==
  (ms_call.made /\ ms_call.transitions = list_transitions) =>
    /\ Evaluation.state = "AMBIGUOUS"
         => \/ contradictory(ms_call.available_evidence)
            \/ Cardinality(PlausibleTerminal) > 1
    /\ ms_call.available_evidence = {"SETTLEMENT_CONFIRMATION"}
         => Evaluation.state = "SETTLED"
    /\ ms_call.available_evidence = {} => Evaluation.state = "UNKNOWN"

\* C40: append rejects an event for its time exactly when the instant of its
\* produced_at is before that of the last event logged, and at_or_before
\* returns exactly the entries whose instant is not after that of its
\* argument, for whole-second and fractional timestamps alike.
C40_ChronologicalOrder ==
  /\ \A n \in 1..Len(ev_calls) :
       LET call == ev_calls[n]
           reversal == call.raised # None /\ call.raised[1][1] = "produced_at "
       IN  call.log_len > 0 =>
             (reversal <=> Instant(call.event.produced_at)
                             < Instant(ev_events[call.log_len][2].produced_at))
  /\ \A iso_dt \in ProducedAts :
       at_or_before(iso_dt)
         = SelectSeq(ev_events,
                     LAMBDA entry : Instant(entry[2].produced_at) <= Instant(iso_dt))
====
